---------------------------- MODULE Spec2Model ----------------------------
(***************************************************************************)
(* A model of the drive-thru ordering agent: the Order aggregate, the menu *)
(* retrieval engine and the EnhancedConversationManager state machine with *)
(* its error handling (src/src/conversation_manager_v2.py,                 *)
(* src/src/menu_rag.py, src/src/error_handler.py).                         *)
(*                                                                         *)
(* Text is modelled as a sequence of one-character strings, so that        *)
(* str.lower(), str.strip(), the substring test and str.split() are        *)
(* computed and not assumed.  Prices are in cents and search scores in     *)
(* hundredths (score 1.0 is 100).                                          *)
(***************************************************************************)
EXTENDS Integers, Sequences, FiniteSets, TLC

(***************************************************************************)
(* Bounds of the model.                                                    *)
(***************************************************************************)
\* largest quantity a single line reaches in a conversation of the model
MaxQty == 4
\* process_input calls explored in one run of the model
MaxTurns == 2

\* process_input calls in a conversation of SpecSession
MaxSessionTurns == 5
\* longest sequence of direct Order calls explored by SpecOrder
MaxOps == 3

(***************************************************************************)
(* Text.                                                                   *)
(***************************************************************************)
UpperToLower ==
    "A" :> "a" @@ "B" :> "b" @@ "C" :> "c" @@ "D" :> "d" @@ "E" :> "e" @@
    "F" :> "f" @@ "G" :> "g" @@ "H" :> "h" @@ "I" :> "i" @@ "J" :> "j" @@
    "K" :> "k" @@ "L" :> "l" @@ "M" :> "m" @@ "N" :> "n" @@ "O" :> "o" @@
    "P" :> "p" @@ "Q" :> "q" @@ "R" :> "r" @@ "S" :> "s" @@ "T" :> "t" @@
    "U" :> "u" @@ "V" :> "v" @@ "W" :> "w" @@ "X" :> "x" @@ "Y" :> "y" @@
    "Z" :> "z"

\* str.lower()
Lower(s) ==
    [i \in 1..Len(s) |-> IF s[i] \in DOMAIN UpperToLower THEN UpperToLower[s[i]] ELSE s[i]]

Whitespace == {" ", "\t", "\n"}

\* (mutant) the emptiness check without strip()
IsBlankEmptyOnly(s) == s = <<>>

\* `not s or not s.strip()`: the text is empty or holds only whitespace
IsBlank(s) == \A i \in 1..Len(s) : s[i] \in Whitespace

\* `sub in s` for two strings
Contains(s, sub) ==
    \E i \in 0..(Len(s) - Len(sub)) : SubSeq(s, i + 1, i + Len(sub)) = sub

\* membership of x in a list
InSeq(x, xs) == \E i \in 1..Len(xs) : xs[i] = x

\* a phrase that names nothing on the menu
Pizza == <<"p","i","z","z","a">>

(***************************************************************************)
(* The catalog (TacoBellMenuRAG._load_menu_data), in declaration order.    *)
(***************************************************************************)
MenuData ==
  <<
    [ name |-> <<"C","r","u","n","c","h","y"," ","T","a","c","o">>,
      category |-> "Tacos", price |-> 149,
      aliases |-> <<<<"h","a","r","d"," ","t","a","c","o">>,
                   <<"r","e","g","u","l","a","r"," ","t","a","c","o">>,
                   <<"c","r","i","s","p","y"," ","t","a","c","o">>,
                   <<"c","r","u","n","c","h","y">>>>,
      tags |-> <<<<"c","r","u","n","c","h","y">>,
                <<"b","e","e","f">>,
                <<"c","h","e","a","p">>,
                <<"c","l","a","s","s","i","c">>,
                <<"c","o","r","n"," ","s","h","e","l","l">>>> ],
    [ name |-> <<"S","o","f","t"," ","T","a","c","o">>,
      category |-> "Tacos", price |-> 149,
      aliases |-> <<<<"f","l","o","u","r"," ","t","a","c","o">>,
                   <<"r","e","g","u","l","a","r"," ","s","o","f","t"," ","t","a","c","o">>>>,
      tags |-> <<<<"s","o","f","t">>,
                <<"b","e","e","f">>,
                <<"c","h","e","a","p">>,
                <<"c","l","a","s","s","i","c">>,
                <<"f","l","o","u","r"," ","t","o","r","t","i","l","l","a">>>> ],
    [ name |-> <<"C","r","u","n","c","h","y"," ","T","a","c","o"," ","S","u","p","r","e","m","e">>,
      category |-> "Tacos", price |-> 199,
      aliases |-> <<<<"s","u","p","r","e","m","e"," ","t","a","c","o">>,
                   <<"d","e","l","u","x","e"," ","t","a","c","o">>,
                   <<"l","o","a","d","e","d"," ","t","a","c","o">>>>,
      tags |-> <<<<"c","r","u","n","c","h","y">>,
                <<"b","e","e","f">>,
                <<"s","u","p","r","e","m","e">>,
                <<"s","o","u","r"," ","c","r","e","a","m">>,
                <<"t","o","m","a","t","o","e","s">>,
                <<"u","p","g","r","a","d","e","d">>>> ],
    [ name |-> <<"D","o","r","i","t","o","s"," ","L","o","c","o","s"," ","T","a","c","o","s">>,
      category |-> "Tacos", price |-> 219,
      aliases |-> <<<<"D","L","T">>,
                   <<"d","o","r","i","t","o"," ","t","a","c","o">>,
                   <<"n","a","c","h","o"," ","t","a","c","o">>,
                   <<"d","o","r","i","t","o","s"," ","t","a","c","o">>>>,
      tags |-> <<<<"c","r","u","n","c","h","y">>,
                <<"b","e","e","f">>,
                <<"d","o","r","i","t","o","s">>,
                <<"n","a","c","h","o">>,
                <<"s","p","e","c","i","a","l","t","y">>,
                <<"c","h","e","e","s","e"," ","s","h","e","l","l">>,
                <<"s","p","i","c","y"," ","o","p","t","i","o","n">>>> ],
    [ name |-> <<"B","e","a","n"," ","B","u","r","r","i","t","o">>,
      category |-> "Burritos", price |-> 129,
      aliases |-> <<<<"b","e","a","n","s"," ","b","u","r","r","i","t","o">>,
                   <<"v","e","g","e","t","a","r","i","a","n"," ","b","u","r","r","i","t","o">>,
                   <<"v","e","g","g","i","e"," ","b","u","r","r","i","t","o">>>>,
      tags |-> <<<<"v","e","g","e","t","a","r","i","a","n">>,
                <<"b","e","a","n","s">>,
                <<"c","h","e","a","p","e","s","t">>,
                <<"n","o"," ","m","e","a","t">>,
                <<"b","u","d","g","e","t">>,
                <<"v","a","l","u","e">>>> ],
    [ name |-> <<"B","e","e","f"," ","B","u","r","r","i","t","o">>,
      category |-> "Burritos", price |-> 179,
      aliases |-> <<<<"g","r","o","u","n","d"," ","b","e","e","f"," ","b","u","r","r","i","t","o">>,
                   <<"m","e","a","t"," ","b","u","r","r","i","t","o">>>>,
      tags |-> <<<<"b","e","e","f">>,
                <<"c","h","e","a","p">>,
                <<"s","i","m","p","l","e">>,
                <<"c","l","a","s","s","i","c">>>> ],
    [ name |-> <<"B","e","e","f","y"," ","5","-","L","a","y","e","r"," ","B","u","r","r","i","t","o">>,
      category |-> "Burritos", price |-> 249,
      aliases |-> <<<<"f","i","v","e"," ","l","a","y","e","r">>,
                   <<"5"," ","l","a","y","e","r">>,
                   <<"5","-","l","a","y","e","r">>>>,
      tags |-> <<<<"b","e","e","f">>,
                <<"h","e","a","r","t","y">>,
                <<"f","i","l","l","i","n","g">>,
                <<"m","u","l","t","i","p","l","e"," ","l","a","y","e","r","s">>,
                <<"s","o","u","r"," ","c","r","e","a","m">>>> ],
    [ name |-> <<"C","r","u","n","c","h","w","r","a","p"," ","S","u","p","r","e","m","e">>,
      category |-> "Burritos", price |-> 449,
      aliases |-> <<<<"c","r","u","n","c","h"," ","w","r","a","p">>,
                   <<"c","r","u","n","c","h","y"," ","w","r","a","p">>,
                   <<"h","e","x","a","g","o","n">>>>,
      tags |-> <<<<"c","r","u","n","c","h","y">>,
                <<"b","e","e","f">>,
                <<"p","r","e","m","i","u","m">>,
                <<"s","i","g","n","a","t","u","r","e">>,
                <<"t","o","s","t","a","d","a">>,
                <<"h","e","x","a","g","o","n","a","l">>>> ],
    [ name |-> <<"S","o","f","t"," ","D","r","i","n","k">>,
      category |-> "Drinks", price |-> 229,
      aliases |-> <<<<"s","o","d","a">>,
                   <<"c","o","k","e">>,
                   <<"p","e","p","s","i">>,
                   <<"f","o","u","n","t","a","i","n"," ","d","r","i","n","k">>,
                   <<"p","o","p">>,
                   <<"c","o","l","a">>>>,
      tags |-> <<<<"b","e","v","e","r","a","g","e">>,
                <<"f","o","u","n","t","a","i","n">>,
                <<"c","a","r","b","o","n","a","t","e","d">>,
                <<"r","e","f","r","e","s","h","i","n","g">>>> ],
    [ name |-> <<"B","a","j","a"," ","B","l","a","s","t">>,
      category |-> "Drinks", price |-> 229,
      aliases |-> <<<<"b","a","j","a">>,
                   <<"b","l","a","s","t">>,
                   <<"b","l","u","e"," ","d","r","i","n","k">>,
                   <<"m","o","u","n","t","a","i","n"," ","d","e","w"," ","b","a","j","a">>,
                   <<"t","r","o","p","i","c","a","l">>>>,
      tags |-> <<<<"b","e","v","e","r","a","g","e">>,
                <<"e","x","c","l","u","s","i","v","e">>,
                <<"t","r","o","p","i","c","a","l">>,
                <<"l","i","m","e">>,
                <<"s","i","g","n","a","t","u","r","e"," ","d","r","i","n","k">>>> ],
    [ name |-> <<"B","a","j","a"," ","B","l","a","s","t"," ","F","r","e","e","z","e">>,
      category |-> "Drinks", price |-> 269,
      aliases |-> <<<<"f","r","o","z","e","n"," ","b","a","j","a">>,
                   <<"b","a","j","a"," ","s","l","u","s","h">>,
                   <<"b","l","u","e"," ","f","r","e","e","z","e">>,
                   <<"s","l","u","s","h","i","e">>,
                   <<"f","r","o","z","e","n"," ","d","r","i","n","k">>>>,
      tags |-> <<<<"b","e","v","e","r","a","g","e">>,
                <<"f","r","o","z","e","n">>,
                <<"s","l","u","s","h">>,
                <<"c","o","l","d">>,
                <<"d","e","s","s","e","r","t"," ","d","r","i","n","k">>>> ],
    [ name |-> <<"N","a","c","h","o","s"," ","&"," ","C","h","e","e","s","e">>,
      category |-> "Sides", price |-> 139,
      aliases |-> <<<<"c","h","i","p","s"," ","a","n","d"," ","c","h","e","e","s","e">>,
                   <<"n","a","c","h","o","s">>,
                   <<"c","h","e","e","s","e"," ","n","a","c","h","o","s">>,
                   <<"c","h","i","p","s">>>>,
      tags |-> <<<<"c","r","u","n","c","h","y">>,
                <<"c","h","e","e","s","e">>,
                <<"c","h","e","a","p">>,
                <<"s","n","a","c","k">>,
                <<"s","h","a","r","e","a","b","l","e">>,
                <<"v","e","g","e","t","a","r","i","a","n">>>> ],
    [ name |-> <<"N","a","c","h","o"," ","F","r","i","e","s">>,
      category |-> "Sides", price |-> 149,
      aliases |-> <<<<"f","r","i","e","s">>,
                   <<"f","r","e","n","c","h"," ","f","r","i","e","s">>,
                   <<"s","e","a","s","o","n","e","d"," ","f","r","i","e","s">>>>,
      tags |-> <<<<"f","r","i","e","s">>,
                <<"c","h","e","e","s","e">>,
                <<"s","e","a","s","o","n","e","d">>,
                <<"l","i","m","i","t","e","d"," ","t","i","m","e">>,
                <<"p","o","p","u","l","a","r">>>> ],
    [ name |-> <<"C","i","n","n","a","m","o","n"," ","T","w","i","s","t","s">>,
      category |-> "Sides", price |-> 100,
      aliases |-> <<<<"d","e","s","s","e","r","t">>,
                   <<"s","w","e","e","t">>,
                   <<"t","w","i","s","t","s">>,
                   <<"c","i","n","n","a","m","o","n">>,
                   <<"c","h","u","r","r","o","s">>>>,
      tags |-> <<<<"s","w","e","e","t">>,
                <<"d","e","s","s","e","r","t">>,
                <<"c","h","e","a","p","e","s","t">>,
                <<"c","i","n","n","a","m","o","n">>,
                <<"c","r","i","s","p","y">>,
                <<"v","e","g","e","t","a","r","i","a","n">>>> ],
    [ name |-> <<"C","r","a","v","i","n","g","s"," ","B","o","x">>,
      category |-> "Combos", price |-> 500,
      aliases |-> <<<<"b","o","x">>,
                   <<"c","o","m","b","o"," ","b","o","x">>,
                   <<"m","e","a","l"," ","d","e","a","l">>,
                   <<"5"," ","d","o","l","l","a","r"," ","b","o","x">>,
                   <<"$","5"," ","b","o","x">>>>,
      tags |-> <<<<"c","o","m","b","o">>,
                <<"v","a","l","u","e">>,
                <<"d","e","a","l">>,
                <<"c","o","m","p","l","e","t","e"," ","m","e","a","l">>,
                <<"v","a","r","i","e","t","y">>,
                <<"b","e","s","t"," ","v","a","l","u","e">>>> ],
    [ name |-> <<"C","o","m","b","o"," ","M","e","a","l">>,
      category |-> "Combos", price |-> 799,
      aliases |-> <<<<"m","e","a","l">>,
                   <<"c","o","m","b","o">>,
                   <<"n","u","m","b","e","r"," ","1">>,
                   <<"n","u","m","b","e","r"," ","2">>>>,
      tags |-> <<<<"c","o","m","b","o">>,
                <<"c","u","s","t","o","m","i","z","a","b","l","e">>,
                <<"m","e","a","l">>,
                <<"d","r","i","n","k"," ","i","n","c","l","u","d","e","d">>>> ]
  >>

(***************************************************************************)
(* The menu retrieval engine (class TacoBellMenuRAG).                      *)
(* A search result is [item |-> index into MenuData, score, reason].       *)
(***************************************************************************)
NItems == Len(MenuData)

\* str.split(): the maximal runs of non-whitespace characters, in order
RECURSIVE SplitFrom(_, _, _)
SplitFrom(s, i, word) ==
    IF i > Len(s)
    THEN IF word = <<>> THEN <<>> ELSE <<word>>
    ELSE IF s[i] \in Whitespace
         THEN IF word = <<>> THEN SplitFrom(s, i + 1, <<>>)
              ELSE <<word>> \o SplitFrom(s, i + 1, <<>>)
         ELSE SplitFrom(s, i + 1, Append(word, s[i]))

Split(s) == SplitFrom(s, 1, <<>>)

\* the elements of a list of indices that lie in a set, in list order
RECURSIVE SelectIdx(_, _)
SelectIdx(idxs, S) ==
    IF idxs = <<>> THEN <<>>
    ELSE IF idxs[1] \in S THEN <<idxs[1]>> \o SelectIdx(Tail(idxs), S)
         ELSE SelectIdx(Tail(idxs), S)

\* xs[:k]
Take(xs, k) == SubSeq(xs, 1, IF k < Len(xs) THEN k ELSE Len(xs))

\* xs[-k:]
TakeLast(xs, k) == SubSeq(xs, IF k < Len(xs) THEN Len(xs) - k + 1 ELSE 1, Len(xs))

\* xs[::-1]
Reverse(xs) == [i \in 1..Len(xs) |-> xs[Len(xs) + 1 - i]]

AllIdx == [i \in 1..NItems |-> i]

\* a stable ascending sort of catalog indices by key[i] (sorted(), and
\* numpy.argsort on a vector of this size): insertion of each index in turn
RECURSIVE InsertByKey(_, _, _)
InsertByKey(sorted, i, key) ==
    IF sorted = <<>> THEN <<i>>
    ELSE IF key[sorted[Len(sorted)]] <= key[i] THEN Append(sorted, i)
         ELSE Append(InsertByKey(SubSeq(sorted, 1, Len(sorted) - 1), i, key),
                     sorted[Len(sorted)])

RECURSIVE SortByKey(_, _)
SortByKey(idxs, key) ==
    IF idxs = <<>> THEN <<>>
    ELSE InsertByKey(SortByKey(SubSeq(idxs, 1, Len(idxs) - 1), key), idxs[Len(idxs)], key)

\* _build_indices: name_to_item, as the index of the item with that
\* lower-cased name (0: no such key); a later item overwrites an earlier one
LowerNames == [i \in 1..NItems |-> Lower(MenuData[i].name)]

NameIndex(key) ==
    LET hits == { i \in 1..NItems : LowerNames[i] = key }
    IN  IF hits = {} THEN 0 ELSE CHOOSE i \in hits : \A j \in hits : j <= i

\* _build_indices: alias_to_item
LowerAliases ==
    [i \in 1..NItems |->
        { Lower(MenuData[i].aliases[a]) : a \in 1..Len(MenuData[i].aliases) }]

AliasIndex(key) ==
    LET hits == { i \in 1..NItems : key \in LowerAliases[i] }
    IN  IF hits = {} THEN 0 ELSE CHOOSE i \in hits : \A j \in hits : j <= i

\* _build_indices: tag_to_items[tag], the items carrying the tag in
\* declaration order (empty: the tag is no key)
TagItems(tag) == SelectIdx(AllIdx, { i \in 1..NItems : InSeq(tag, MenuData[i].tags) })

\* (mutant) the price index left in declaration order
ItemsAsDeclared(decl) == decl

\* _build_special_indices, line 298: sorted(menu_items, key=price), for a
\* catalog whose items are declared in the order decl
ItemsByPrice(decl) == SortByKey(decl, [i \in 1..NItems |-> MenuData[i].price])

\* _build_special_indices
items_by_price == ItemsByPrice(AllIdx)

vegetarian_items ==
    SelectIdx(AllIdx, { i \in 1..NItems :
        \/ InSeq(<<"v","e","g","e","t","a","r","i","a","n">>, MenuData[i].tags)
        \/ InSeq(<<"n","o"," ","m","e","a","t">>, MenuData[i].tags) })

crunchy_items ==
    SelectIdx(AllIdx, { i \in 1..NItems :
        InSeq(<<"c","r","u","n","c","h","y">>, MenuData[i].tags) })

\* the embedding model's answer to a query: the cosine similarity of the
\* query to each catalog item, in hundredths.  The model is an external
\* collaborator; these are the answers the model of the program draws from.
SimNone == [i \in 1..NItems |-> 30]
SimLow == [i \in 1..NItems |-> IF i = 2 THEN 50 ELSE IF i = 1 THEN 45 ELSE 10]
SimMid ==
    [i \in 1..NItems |-> IF i = 1 THEN 62 ELSE IF i = 2 THEN 55
                         ELSE IF i = 13 THEN 35 ELSE 10]
Similarities == { SimNone, SimLow, SimMid }

SearchResult(i, score, reason) == [item |-> i, score |-> score, reason |-> reason]

\* the tag tier: the items of every query word that is a tag, first seen first
RECURSIVE TagMatches(_, _)
TagMatches(words, acc) ==
    IF words = <<>> THEN acc
    ELSE LET found == TagItems(words[1])
             fresh == SelectIdx(found, { i \in 1..NItems : ~InSeq(i, acc) })
         IN  TagMatches(Tail(words), acc \o fresh)

\* the semantic tier: argsort, the last top_k reversed, those above 0.3
SemanticResults(sim, top_k) ==
    LET top_indices == Reverse(TakeLast(SortByKey(AllIdx, sim), top_k))
        kept == SelectIdx(top_indices, { i \in 1..NItems : sim[i] > 30 })
    IN  [n \in 1..Len(kept) |-> SearchResult(kept[n], sim[kept[n]], "semantic")]

\* score of the exact-name tier (1.0)
ExactScore == 100

\* a tier of search_menu that returned
Answered(results) == [answered |-> TRUE, results |-> results]

NotAnswered == [answered |-> FALSE, results |-> <<>>]

\* search_menu, lines 315-324: the price tiers, given the price index; they
\* return three items whatever top_k is
price_search(query, by_price) ==
    LET query_lower == Lower(query)
        has(kw) == Contains(query_lower, kw)
        ranked(idxs) == [n \in 1..Len(idxs) |->
                            SearchResult(idxs[n], 100 - (n - 1) * 10, "Price ranking")]
    IN  IF has(<<"c","h","e","a","p","e","s","t">>) \/ has(<<"l","o","w","e","s","t"," ","p","r","i","c","e">>)
        THEN Answered(ranked(Take(by_price, 3)))
        ELSE IF has(<<"m","o","s","t"," ","e","x","p","e","n","s","i","v","e">>) \/ has(<<"p","r","e","m","i","u","m">>)
        THEN Answered(ranked(Reverse(TakeLast(by_price, 3))))
        ELSE NotAnswered

\* search_menu, lines 313-360: the tiers that answer from the catalog's
\* indices (special queries, exact name, alias, tags); answered is FALSE when
\* none of them returns and the search falls back to the embedding model
catalog_search(query, top_k) ==
    LET query_lower == Lower(query)
        has(kw) == Contains(query_lower, kw)
        flat(idxs, score, reason) ==
            [n \in 1..Len(idxs) |-> SearchResult(idxs[n], score, reason)]
        dlt == NameIndex(<<"d","o","r","i","t","o","s"," ","l","o","c","o","s"," ","t","a","c","o","s">>)
        matching_items == TagMatches(Split(query_lower), <<>>)
    IN  IF price_search(query, items_by_price).answered
        THEN price_search(query, items_by_price)
        ELSE IF has(<<"v","e","g","e","t","a","r","i","a","n">>) \/ has(<<"v","e","g","g","i","e">>) \/ has(<<"n","o"," ","m","e","a","t">>)
        THEN Answered(flat(Take(vegetarian_items, top_k), 90, "Vegetarian option"))
        ELSE IF has(<<"s","p","i","c","y">>) \/ has(<<"h","o","t">>)
        THEN IF dlt # 0 THEN Answered(<<SearchResult(dlt, 90, "Has spicy option (Fiery)")>>)
             ELSE Answered(<<>>)
        ELSE IF has(<<"c","r","u","n","c","h","y">>) \/ has(<<"c","r","i","s","p","y">>)
        THEN Answered(flat(Take(crunchy_items, top_k), 90, "Crunchy item"))
        ELSE IF NameIndex(query_lower) # 0
        THEN Answered(<<SearchResult(NameIndex(query_lower), ExactScore, "Exact name match")>>)
        ELSE IF AliasIndex(query_lower) # 0
        THEN Answered(<<SearchResult(AliasIndex(query_lower), 95, "Alias match")>>)
        ELSE IF matching_items # <<>>
        THEN Answered(flat(Take(matching_items, top_k), 85, "Tag match"))
        ELSE NotAnswered

\* search_menu, lines 362-377, the fall-back: the embedding model raises
\* (it reports no similarities) or the semantic tier answers
EncodeRaises == <<>>

\* TacoBellMenuRAG.search_menu(query, top_k), given the similarities the
\* embedding model reports for the query.  The reason of a semantic result
\* (_get_match_reason) is not modelled and reads "semantic".
search_menu(query, top_k, sim) ==
    IF catalog_search(query, top_k).answered
    THEN catalog_search(query, top_k).results
    ELSE SemanticResults(sim, top_k)

\* whether search_menu(query, top_k) raises: the query reaches the embedding
\* model and the model raises
search_raises(query, top_k, sim) ==
    ~catalog_search(query, top_k).answered /\ sim = EncodeRaises

\* TacoBellMenuRAG.get_item_by_name: the index of the item, 0 for None
get_item_by_name(name) == NameIndex(Lower(name))

(***************************************************************************)
(* The Order aggregate (class Order, conversation_manager_v2.py).          *)
(* A line is [name, quantity, price, modifications, confidence].           *)
(***************************************************************************)
OrderItem(name, quantity, price, modifications, confidence) ==
    [ name |-> name, quantity |-> quantity, price |-> price,
      modifications |-> modifications, confidence |-> confidence ]

\* (mutant) add_item merging on the name alone
MergeIndexNameOnly(its, item) ==
    LET hits == { i \in 1..Len(its) : its[i].name = item.name }
    IN  IF hits = {} THEN 0 ELSE CHOOSE i \in hits : \A j \in hits : i <= j

\* index of the first line add_item merges into, 0 when there is none
MergeIndex(its, item) ==
    LET hits == { i \in 1..Len(its) :
                    /\ its[i].name = item.name
                    /\ its[i].modifications = item.modifications }
    IN  IF hits = {} THEN 0 ELSE CHOOSE i \in hits : \A j \in hits : i <= j

\* Order.add_item: the lines after the call
add_item(its, item) ==
    LET k == MergeIndex(its, item)
    IN  IF k # 0
        THEN [its EXCEPT ![k].quantity = its[k].quantity + item.quantity]
        ELSE Append(its, item)

\* (mutant) remove_item comparing the names as written
RemoveIndexCaseSensitive(its, item_name) ==
    LET hits == { i \in 1..Len(its) : its[i].name = item_name }
    IN  IF hits = {} THEN 0 ELSE CHOOSE i \in hits : \A j \in hits : i <= j

\* index of the first line remove_item pops, 0 when there is none
RemoveIndex(its, item_name) ==
    LET hits == { i \in 1..Len(its) : Lower(its[i].name) = Lower(item_name) }
    IN  IF hits = {} THEN 0 ELSE CHOOSE i \in hits : \A j \in hits : i <= j

\* (mutant) list.pop() without the index: the last line goes
PopLast(its, k) == SubSeq(its, 1, Len(its) - 1)

\* list.pop(i), 1-based
Pop(its, k) == SubSeq(its, 1, k - 1) \o SubSeq(its, k + 1, Len(its))

\* Order.remove_item: [items |-> the lines after the call, ret |-> the result]
remove_item(its, item_name) ==
    LET k == RemoveIndex(its, item_name)
    IN  IF k # 0
        THEN [items |-> Pop(its, k), ret |-> TRUE]
        ELSE [items |-> its, ret |-> FALSE]

\* (mutant) a line's price without its quantity
get_total_price_unit(item) == item.price

\* OrderItem.get_total_price
get_total_price(item) == item.price * item.quantity

\* Order.get_total: sum(...) over the lines in list order, starting from 0
RECURSIVE get_total(_)
get_total(its) ==
    IF its = <<>> THEN 0
    ELSE get_total(SubSeq(its, 1, Len(its) - 1)) + get_total_price(its[Len(its)])

\* (mutant) an order whose lines are never in doubt
has_low_confidence_never(its) == FALSE

\* Order.has_low_confidence_items
has_low_confidence_items(its) == \E i \in 1..Len(its) : its[i].confidence < 70

(***************************************************************************)
(* The error handler (class ErrorHandler) and the conversation repair      *)
(* helpers (class ConversationRepair).                                     *)
(***************************************************************************)
ASR_FAILURE == "asr_failure"
ASR_LOW_CONFIDENCE == "asr_low_confidence"
API_TIMEOUT == "api_timeout"
API_RATE_LIMIT == "api_rate_limit"
NETWORK_ERROR == "network_error"
MENU_ITEM_NOT_FOUND == "menu_item_not_found"
AMBIGUOUS_ORDER == "ambiguous_order"
EMPTY_ORDER == "empty_order"
INVALID_STATE == "invalid_state"
UNKNOWN_ERROR == "unknown_error"

ErrorType ==
    { ASR_FAILURE, ASR_LOW_CONFIDENCE, API_TIMEOUT, API_RATE_LIMIT, NETWORK_ERROR,
      MENU_ITEM_NOT_FOUND, AMBIGUOUS_ORDER, EMPTY_ORDER, INVALID_STATE, UNKNOWN_ERROR }

\* the kinds ErrorHandler.recovery_strategies has a strategy for; every
\* strategy returns True
recovery_strategies == ErrorType \ { INVALID_STATE, UNKNOWN_ERROR }

\* (mutant) the message look-up that always misses
user_messages_default(kind) == "Let me try that again."

\* ErrorHandler.user_messages.get(kind, "Let me try that again.")
user_messages(kind) ==
    CASE kind = ASR_FAILURE -> "I didn't catch that. Could you repeat?"
      [] kind = ASR_LOW_CONFIDENCE -> "Sorry, I didn't quite hear that. What did you say?"
      [] kind = API_TIMEOUT -> "Give me just a second..."
      [] kind = API_RATE_LIMIT -> "One moment please..."
      [] kind = NETWORK_ERROR -> "Having a little technical issue. Let me try that again."
      [] kind = MENU_ITEM_NOT_FOUND -> "I couldn't find that on our menu. What else can I get you?"
      [] kind = AMBIGUOUS_ORDER -> "Just to clarify - what would you like?"
      [] kind = EMPTY_ORDER -> "What can I get started for you today?"
      [] OTHER -> "Let me try that again."

\* ErrorContext.max_retries
DefaultMaxRetries == 3

\* (mutant) handle_error answering with the static text of the kind only
handle_error_static(kind, retry_count, max_retries, user_facing_message) ==
    IF kind \in recovery_strategies /\ retry_count < max_retries
    THEN [success |-> TRUE, message |-> user_messages(kind)]
    ELSE IF retry_count >= max_retries
    THEN [success |-> FALSE,
          message |-> "I'm having trouble processing that. Let's try something else."]
    ELSE [success |-> FALSE, message |-> user_messages(kind)]

\* ErrorHandler.handle_error, its result (success, user_message); an absent
\* user_facing_message is the empty text
handle_error(kind, retry_count, max_retries, user_facing_message) ==
    LET user_message == IF user_facing_message # "" THEN user_facing_message
                        ELSE user_messages(kind)
    IN  IF kind \in recovery_strategies /\ retry_count < max_retries
        THEN [success |-> TRUE, message |-> user_message]
        ELSE IF retry_count >= max_retries
        THEN [success |-> FALSE,
              message |-> "I'm having trouble processing that. Let's try something else."]
        ELSE [success |-> FALSE, message |-> user_message]

\* ErrorHandler._track_error (handle_error's effect on error_counts); a kind
\* that is no key of the dict yet counts 0
track_error(counts, kind) == [counts EXCEPT ![kind] = counts[kind] + 1]

\* should_escalate, line 211: "5 of same error type"
EscalationThreshold == 5

\* ErrorHandler.should_escalate(kind), given error_counts: whether the call
\* raised, and the value it returned when it did not.  Below the threshold
\* the call goes on to evaluate ErrorType.CRITICAL (line 215); the enum
\* ErrorType has no such member (CRITICAL is a member of ErrorSeverity), so
\* the attribute access raises AttributeError.
should_escalate(counts, kind) ==
    IF counts[kind] >= EscalationThreshold
    THEN [raised |-> FALSE, value |-> TRUE]
    ELSE [raised |-> TRUE, value |-> FALSE]

\* (mutant) the confusion check without the fillers "uh" and "um"
detect_confusion_no_fillers(text) ==
    \E signal \in { <<"w","h","a","t">>, <<"h","u","h">>, <<"w","a","i","t">>,
                      <<"c","o","n","f","u","s","e","d">>,
                      <<"d","o","n","'","t"," ","u","n","d","e","r","s","t","a","n","d">>,
                      <<"n","o","t"," ","s","u","r","e">>,
                      <<"i"," ","d","o","n","'","t"," ","k","n","o","w">> } :
        Contains(Lower(text), signal)

\* ConversationRepair.detect_confusion_signals
confusion_signals ==
    { <<"w","h","a","t">>, <<"h","u","h">>, <<"w","a","i","t">>, <<"u","h">>, <<"u","m">>, <<"c","o","n","f","u","s","e","d">>,
      <<"d","o","n","'","t"," ","u","n","d","e","r","s","t","a","n","d">>,
      <<"n","o","t"," ","s","u","r","e">>,
      <<"i"," ","d","o","n","'","t"," ","k","n","o","w">> }

detect_confusion_signals(text) ==
    \E signal \in confusion_signals : Contains(Lower(text), signal)

\* ConversationRepair.suggest_recovery_path
suggest_recovery_path(conversation_state) ==
    CASE conversation_state = "greeting" ->
            "Let's start over. Welcome to Taco Bell! What can I get you?"
      [] conversation_state = "taking_order" ->
            "No problem! What would you like to order?"
      [] conversation_state = "confirming_item" ->
            "Let me know what you'd like, and I'll make sure I get it right."
      [] conversation_state = "order_complete" ->
            "Your order is ready. Would you like to change anything?"
      [] OTHER -> "Let's try that again. What can I help you with?"

\* ConversationRepair.clarification_templates["unclear_item"]; random.choice
\* picks one of them
unclear_item_templates ==
    { "Just to make sure - did you say {item}?",
      "I want to get this right - you said {item}, correct?",
      "Quick question - is that {item}?" }

(***************************************************************************)
(* Recommendations (TacoBellMenuRAG.get_recommendations).                  *)
(***************************************************************************)
\* the catalog indices of the names that get_item_by_name finds, a name
\* that is not found left out; one entry per name of the list
RECURSIVE FoundItems(_)
FoundItems(names) ==
    IF names = <<>> THEN <<>>
    ELSE LET i == get_item_by_name(names[1])
         IN  (IF i = 0 THEN <<>> ELSE <<i>>) \o FoundItems(Tail(names))

\* total_price: the unit price of each found name, summed
RECURSIVE SumPrices(_)
SumPrices(idxs) ==
    IF idxs = <<>> THEN 0 ELSE MenuData[idxs[1]].price + SumPrices(Tail(idxs))

\* names of the three default suggestions and of the value combo
NameBajaBlast == <<"B","a","j","a"," ","B","l","a","s","t">>
NameNachoFries == <<"N","a","c","h","o"," ","F","r","i","e","s">>
NameCrunchyTaco == <<"C","r","u","n","c","h","y"," ","T","a","c","o">>
NameCravingsBox == <<"C","r","a","v","i","n","g","s"," ","B","o","x">>

\* the small-order threshold (5.0), in cents
SmallOrderThreshold == 500

\* (mutant) the analysis of an order that overlooks its drinks
AnalyzeOrderNoDrinks(found) ==
    [ has_drink |-> FALSE,
      has_side |-> \E n \in 1..Len(found) : MenuData[found[n]].category = "Sides",
      has_main |-> \E n \in 1..Len(found) :
                      MenuData[found[n]].category \in {"Tacos", "Burritos"},
      total_price |-> SumPrices(found) ]

\* get_recommendations, lines 414-423: what the loop over the order's names
\* finds, given the catalog indices of the names
AnalyzeOrder(found) ==
    [ has_drink |-> \E n \in 1..Len(found) : MenuData[found[n]].category = "Drinks",
      has_side |-> \E n \in 1..Len(found) : MenuData[found[n]].category = "Sides",
      has_main |-> \E n \in 1..Len(found) :
                      MenuData[found[n]].category \in {"Tacos", "Burritos"},
      total_price |-> SumPrices(found) ]

\* (mutant) the default main suggested to every customer
DefaultSuggestionsMainAlways(order) ==
    (IF order.has_main /\ ~order.has_drink
     THEN <<get_item_by_name(NameBajaBlast)>> ELSE <<>>)
    \o (IF order.has_main /\ ~order.has_side
        THEN <<get_item_by_name(NameNachoFries)>> ELSE <<>>)
    \o <<get_item_by_name(NameCrunchyTaco)>>

\* get_recommendations, lines 426-433: the default drink, side and main
DefaultSuggestions(order) ==
    (IF order.has_main /\ ~order.has_drink
     THEN <<get_item_by_name(NameBajaBlast)>> ELSE <<>>)
    \o (IF order.has_main /\ ~order.has_side
        THEN <<get_item_by_name(NameNachoFries)>> ELSE <<>>)
    \o (IF ~order.has_main THEN <<get_item_by_name(NameCrunchyTaco)>> ELSE <<>>)

\* get_recommendations, lines 436-441: the value combo put first, and the
\* suggestions that were not found dropped
Suggestions(order, defaults, cravings_box) ==
    SelectIdx(IF order.total_price < SmallOrderThreshold /\ order.has_main
                 /\ cravings_box # 0
              THEN <<cravings_box>> \o defaults ELSE defaults,
              1..NItems)

\* the suggestions for an analysed order
SuggestionsFor(order) ==
    Suggestions(order, DefaultSuggestions(order), get_item_by_name(NameCravingsBox))

\* get_recommendations(current_items): catalog indices, best first
get_recommendations(current_items) ==
    SuggestionsFor(AnalyzeOrder(FoundItems(current_items)))

(***************************************************************************)
(* State.                                                                  *)
(***************************************************************************)
VARIABLES
    state,                  \* EnhancedConversationManager.state
    items,                  \* EnhancedConversationManager.order.items
    conversation_history,   \* "Customer" / "Agent" entries, oldest first
    consecutive_errors,     \* EnhancedConversationManager.consecutive_errors
    last_successful_state,  \* EnhancedConversationManager.last_successful_state
    error_counts,           \* ErrorHandler.error_counts, kind -> occurrences
    last,                   \* what the last call did and returned
    turns,                  \* process_input calls made so far
    scenario,               \* turns of the end-to-end scenario followed so far
    oplog,                  \* direct Order calls made so far (SpecOrder)
    ledger                  \* running total kept beside the order (SpecOrder)

vars == << state, items, conversation_history, consecutive_errors,
           last_successful_state, error_counts, last, turns, scenario, oplog, ledger >>

managerVars == << state, conversation_history, consecutive_errors,
                  last_successful_state, error_counts, last, turns, scenario >>

\* ConversationState
GREETING == "greeting"
TAKING_ORDER == "taking_order"
CONFIRMING_ITEM == "confirming_item"
MODIFYING_ORDER == "modifying_order"
ORDER_COMPLETE == "order_complete"
CLARIFYING == "clarifying"
ERROR_RECOVERY == "error_recovery"
PAYMENT == "payment"
GOODBYE == "goodbye"

ConversationState ==
    { GREETING, TAKING_ORDER, CONFIRMING_ITEM, MODIFYING_ORDER, ORDER_COMPLETE,
      CLARIFYING, ERROR_RECOVERY, PAYMENT, GOODBYE }

\* what a call did: the operation, the text and confidence it was given, the
\* branch of process_input it took, the classifier calls it made, whether one
\* of them returned and how many item phrases that result reported, the
\* response, and the length of the run of consecutive empty inputs it ends
\* (0 when it is not an empty input)
Outcome(op, user_input, confidence, path, calls, got_result, reported, response, empties) ==
    [ op |-> op, user_input |-> user_input, confidence |-> confidence, path |-> path,
      calls |-> calls, got_result |-> got_result, reported |-> reported,
      response |-> response, empties |-> empties ]

NoTurn(op) ==
    Outcome(op, <<>>, 100, "none", 0, FALSE, 0,
            [text |-> "", rec |-> 0, suggestions |-> <<>>], 0)

\* EnhancedConversationManager.__init__ (and Order.__init__)
Init ==
    /\ state = GREETING
    /\ items = <<>>
    /\ conversation_history = <<>>
    /\ consecutive_errors = 0
    /\ last_successful_state = GREETING
    /\ error_counts = [k \in ErrorType |-> 0]
    /\ last = NoTurn("init")
    /\ turns = 0
    /\ scenario = 0
    /\ oplog = <<>>
    /\ ledger = 0

(***************************************************************************)
(* The inputs of a turn.                                                   *)
(***************************************************************************)
\* what the customer says
TextHi == <<"H","i">>
TextYes == <<"Y","e","s">>
TextConfused == <<"W","a","i","t",","," ","w","h","a","t","?">>
TextOrder ==
    <<"I"," ","w","a","n","t"," ","t","w","o"," ","c","r","u","n","c","h","y"," ",
      "t","a","c","o","s">>
TextPizza == <<"I"," ","w","a","n","t"," ","a"," ","p","i","z","z","a">>
TextThatsAll == <<"T","h","a","t","'","s"," ","a","l","l">>
TextNumberOne == <<"A"," ","n","u","m","b","e","r"," ","1">>
TextDontKnow == <<"W","e"," ","d","o","n","'","t"," ","k","n","o","w">>
Texts == { <<>>, <<" "," ">>, TextHi, TextYes, TextConfused, TextNumberOne, TextDontKnow }

\* the ASR confidence, in hundredths
Confidences == { 30, 50, 100 }

\* the item phrases the classifier reports
PhraseCrunchyTaco == <<"c","r","u","n","c","h","y"," ","t","a","c","o">>
PhraseBajaBlast == <<"B","a","j","a"," ","B","l","a","s","t">>
\* a phrase the customer may use to take an item back
PhraseTaco == <<"t","a","c","o">>
ItemLists ==
    { <<>>, <<PhraseCrunchyTaco>>, <<PhraseBajaBlast>>, <<Pizza>>,
      <<PhraseCrunchyTaco, Pizza>> }

\* the quantity mappings the classifier reports: none, or one value for
\* every phrase; the classifier's output is not validated, so 0 occurs
Phrases == { PhraseCrunchyTaco, PhraseBajaBlast, Pizza }
NoQuantities == [p \in {} |-> 1]
QuantityMaps == { NoQuantities, [p \in Phrases |-> 2], [p \in Phrases |-> 0] }

\* IntentResult: intent, entities['items'], entities['quantities']
IntentResult(intent, its, quantities) ==
    [intent |-> intent, items |-> its, quantities |-> quantities]

\* the results detect_intent returns in the model
IntentResults ==
    { IntentResult("order_item", l, q) : l \in ItemLists \ {<<>>}, q \in QuantityMaps }
    \cup { IntentResult(i, l, NoQuantities) : i \in {"order_item", "remove_item"},
                                              l \in ItemLists }
    \cup { IntentResult("remove_item", <<PhraseTaco>>, NoQuantities) }
    \cup { IntentResult(i, <<>>, NoQuantities) : i \in {"confirm_order", "greeting", "unclear"} }

\* the results that name no item
PlainResults == { r \in IntentResults : r.items = <<>> }

\* what the embedding model does in a turn: it answers, or it raises
Encodings == Similarities \cup { EncodeRaises }

\* the similarities a result's searches depend on: only a phrase that no
\* keyword, name, alias or tag tier answers reaches the semantic tier
SimilaritiesFor(result) ==
    IF result.intent = "order_item" /\ \E n \in 1..Len(result.items) : result.items[n] = Pizza
    THEN Encodings ELSE { SimNone }

\* the searches a conversation of the model makes, computed once: whether
\* the call raised, and the results it returned when it did not
SearchCache ==
    [q \in Phrases, k \in {1, 3}, sim \in Encodings |->
        IF search_raises(q, k, sim)
        THEN [raised |-> TRUE, results |-> <<>>]
        ELSE [raised |-> FALSE, results |-> search_menu(q, k, sim)]]

\* self.menu_rag.search_menu(query, top_k=k)
menu_search(q, k, sim) == SearchCache[q, k, sim]

\* the texts by the branch of process_input they take
BlankTexts == { t \in Texts : IsBlank(t) }
SpokenTexts == { t \in Texts : ~IsBlank(t) }
ConfusedTexts == { t \in SpokenTexts : detect_confusion_signals(t) }
PlainTexts == SpokenTexts \ ConfusedTexts

\* EnhancedConversationManager.max_consecutive_errors
max_consecutive_errors == 3

\* _get_intent_with_retry: max_retries
IntentMaxRetries == 3

\* one process_input call of the model: the text, the ASR confidence, the
\* attempts of detect_intent that raise, the result a later attempt returns
\* and the similarities the embedding search computes
Turn(text, confidence, fails, result, sim) ==
    [text |-> text, confidence |-> confidence, fails |-> fails, result |-> result,
     sim |-> sim]

NoResult == IntentResult("unclear", <<>>, NoQuantities)

\* the classifier's results in an ordinary exchange
Greeting == IntentResult("greeting", <<>>, NoQuantities)
OrderTwoTacos == IntentResult("order_item", <<PhraseCrunchyTaco>>, [p \in Phrases |-> 2])
OrderPizza == IntentResult("order_item", <<Pizza>>, NoQuantities)
Confirm == IntentResult("confirm_order", <<>>, NoQuantities)

\* the end-to-end scenario of tests/test_phase7_integration.py: what the
\* customer says and what the classifier reports, turn by turn, each turn at
\* confidence 1.0
Scenario ==
    << [text |-> TextHi, result |-> Greeting],
       [text |-> TextOrder, result |-> OrderTwoTacos],
       [text |-> TextThatsAll, result |-> Confirm],
       [text |-> TextYes, result |-> Confirm] >>

\* the value of `scenario` once the session has left the scenario
OffScript == Len(Scenario) + 1

\* `scenario` after a dispatched turn: one more turn of the scenario was
\* followed, or the session left it
Follows(n, text, confidence, result) ==
    IF n < Len(Scenario) /\ confidence = 100
       /\ Scenario[n + 1] = [text |-> text, result |-> result]
    THEN n + 1 ELSE OffScript

\* the dispatched turns: every classifier result on the first attempt, and
\* every text, confidence and number of failed attempts with a result that
\* names no item
DispatchTurns ==
    { t \in { Turn(TextHi, c, 0, r, sim) : c \in Confidences, r \in IntentResults,
                                            sim \in Encodings } :
          t.sim \in SimilaritiesFor(t.result) }
    \cup { Turn(t, c, f, r, SimNone) : t \in PlainTexts, c \in Confidences,
                                      f \in 0..(IntentMaxRetries - 1), r \in PlainResults }

\* the low-confidence turns: the single attempt raises, or returns any result
LowConfidenceTurns ==
    { Turn(t, c, 1, NoResult, SimNone) : t \in SpokenTexts, c \in Confidences }
    \cup { Turn(TextHi, c, 0, r, SimNone) : c \in Confidences,
                                           r \in IntentResults }

\* (mutant) the retry loop without the error handler between attempts
TrackTimesNone(counts, kind, n) == counts

\* the turns in which _log_state raises: every classifier result, returned on
\* the first attempt at full confidence
RaisingTurns == { t \in DispatchTurns : t.confidence = 100 /\ t.fails = 0 }

\* error_counts after the error handler was told of n failed attempts
RECURSIVE TrackTimes(_, _, _)
TrackTimes(counts, kind, n) ==
    IF n = 0 THEN counts ELSE TrackTimes(track_error(counts, kind), kind, n - 1)

\* the run of consecutive empty inputs that ends with the last call
EmptyRun == IF last.path = "empty" THEN last.empties ELSE 0

(***************************************************************************)
(* The state handlers of EnhancedConversationManager.  A handler's result  *)
(* is [state, items, error_counts, response]: the fields it leaves behind  *)
(* and the text it returns.  A response is [text, rec, suggestions]: the   *)
(* message (its interpolated parts left as placeholders), the recommended  *)
(* item and the suggested items (catalog indices; 0 and <<>> when absent). *)
(***************************************************************************)
\* OrderIntent
OrderIntent ==
    { "order_item", "modify_item", "remove_item", "confirm_order", "cancel_order",
      "ask_menu", "ask_price", "repeat_order", "greeting", "unclear" }

Resp(text, rec, suggestions) == [text |-> text, rec |-> rec, suggestions |-> suggestions]

\* (mutant) a response that carries no message
MsgEmpty(text) == Resp("", 0, <<>>)

Msg(text) == Resp(text, 0, <<>>)

Handled(st, its, counts, response) ==
    [state |-> st, items |-> its, error_counts |-> counts, response |-> response]

\* (mutant) the quantity mapping ignored: every phrase counts once
QuantityOfOne(quantities, item_name) == 1

\* quantities.get(item_name, 1)
QuantityOf(quantities, item_name) ==
    IF item_name \in DOMAIN quantities THEN quantities[item_name] ELSE 1

\* (mutant) _process_order_item accepting a match at score 0.5 as well
AcceptsAtHalf(results) == results # <<>> /\ results[1].score >= 50

\* _process_order_item: `search_results and search_results[0].score > 0.5`
Accepts(results) == results # <<>> /\ results[1].score > 50

\* (mutant) the loop body naming the line by the phrase as spoken
ProcessOneAsSpoken(acc, item_name, qty, search) ==
    IF ~search.raised /\ Accepts(search.results)
    THEN [acc EXCEPT
            !.items = add_item(acc.items,
                               OrderItem(item_name, qty,
                                         MenuData[search.results[1].item].price, <<>>,
                                         search.results[1].score)),
            !.added = Append(acc.added, MenuData[search.results[1].item].name)]
    ELSE [acc EXCEPT !.not_found = Append(acc.not_found, item_name)]

\* _process_order_item, the body of the loop for one mentioned phrase, given
\* its quantity and the outcome of the top-1 search (a search that raises is
\* caught in the loop and the phrase counts as not found); acc is
\* [items, added, not_found]
ProcessOne(acc, item_name, qty, search) ==
    IF ~search.raised /\ Accepts(search.results)
    THEN [acc EXCEPT
            !.items = add_item(acc.items,
                               OrderItem(MenuData[search.results[1].item].name, qty,
                                         MenuData[search.results[1].item].price, <<>>,
                                         search.results[1].score)),
            !.added = Append(acc.added, MenuData[search.results[1].item].name)]
    ELSE [acc EXCEPT !.not_found = Append(acc.not_found, item_name)]

\* _process_order_item, the loop over the mentioned phrases
RECURSIVE ProcessMentioned(_, _, _, _)
ProcessMentioned(acc, mentioned, quantities, sim) ==
    IF mentioned = <<>> THEN acc
    ELSE ProcessMentioned(ProcessOne(acc, mentioned[1],
                                     QuantityOf(quantities, mentioned[1]),
                                     menu_search(mentioned[1], 1, sim)),
                          Tail(mentioned), quantities, sim)

\* [item.name for item in self.order.items]
LineNames(its) == [i \in 1..Len(its) |-> its[i].name]

\* _process_order_item, `if items_added:` branch, given the recommendations
AddedResponse(recommendations) ==
    IF recommendations # <<>>
    THEN Resp("I've added {items} to your order. Would you like to add a {rec}?",
              recommendations[1], <<>>)
    ELSE Msg("I've added {items} to your order. Anything else?")

\* _process_order_item, `else:` branch (nothing was added), given the top-3
\* search on the first mentioned phrase
NotFoundResponse(found) ==
    Resp(handle_error(MENU_ITEM_NOT_FOUND, 0, DefaultMaxRetries, "").message, 0,
         [n \in 1..Len(found) |-> found[n].item])

\* _handle_state_intent, lines 337-339: the response when a handler raises
HandlerFailedResponse == Msg("Let me help you with that. What would you like?")

\* _process_order_item, the response built after the loop; when the top-3
\* search of the `else:` branch raises, the exception leaves
\* _process_order_item and _handle_state_intent answers in its place
OrderResponse(st, counts, done, mentioned_items, sim) ==
    IF done.added # <<>>
    THEN Handled(st, done.items, counts,
                 AddedResponse(get_recommendations(LineNames(done.items))))
    ELSE IF mentioned_items # <<>> /\ menu_search(mentioned_items[1], 3, sim).raised
    THEN Handled(st, done.items, track_error(counts, MENU_ITEM_NOT_FOUND),
                 HandlerFailedResponse)
    ELSE Handled(st, done.items, track_error(counts, MENU_ITEM_NOT_FOUND),
                 NotFoundResponse(IF mentioned_items # <<>>
                                  THEN menu_search(mentioned_items[1], 3, sim).results
                                  ELSE <<>>))

\* EnhancedConversationManager._process_order_item
process_order_item(st, its, counts, intent, sim) ==
    OrderResponse(st, counts,
                  ProcessMentioned([items |-> its, added |-> <<>>, not_found |-> <<>>],
                                   intent.items, intent.quantities, sim),
                  intent.items, sim)

\* _handle_remove_item, the loop: for each phrase the first line whose
\* lower-cased name contains the lower-cased phrase is removed
\* (list.remove: the first line equal to it); acc is [items, removed]
RECURSIVE RemoveMentioned(_, _)
RemoveMentioned(acc, mentioned) ==
    IF mentioned = <<>> THEN acc
    ELSE LET hits == { i \in 1..Len(acc.items) :
                         Contains(Lower(acc.items[i].name), Lower(mentioned[1])) }
             k == CHOOSE i \in hits : \A j \in hits : i <= j
             same == { i \in 1..Len(acc.items) : acc.items[i] = acc.items[k] }
             r == CHOOSE i \in same : \A j \in same : i <= j
             next == IF hits = {} THEN acc
                     ELSE [items |-> Pop(acc.items, r),
                           removed |-> Append(acc.removed, acc.items[k].name)]
         IN  RemoveMentioned(next, Tail(mentioned))

\* EnhancedConversationManager._handle_remove_item
handle_remove_item(st, its, counts, intent) ==
    LET done == RemoveMentioned([items |-> its, removed |-> <<>>], intent.items)
    IN  IF intent.items = <<>>
        THEN Handled(st, its, counts, Msg("What would you like to remove?"))
        ELSE IF done.removed # <<>>
        THEN Handled(st, done.items, counts,
                     Msg("I've removed {removed} from your order. Anything else?"))
        ELSE Handled(st, done.items, counts, Msg("I couldn't find that item in your order."))

\* (mutant) _handle_greeting moving on only when something is ordered
handle_greeting_waits(its, counts, intent, sim) ==
    IF intent.intent = "order_item"
    THEN process_order_item(TAKING_ORDER, its, counts, intent, sim)
    ELSE Handled(GREETING, its, counts, Msg("{time based greeting}"))

\* _handle_greeting
handle_greeting(its, counts, intent, sim) ==
    IF intent.intent = "order_item"
    THEN process_order_item(TAKING_ORDER, its, counts, intent, sim)
    ELSE Handled(TAKING_ORDER, its, counts, Msg("{time based greeting}"))

\* _handle_taking_order
handle_taking_order(st, its, counts, intent, sim) ==
    IF intent.intent = "order_item"
    THEN process_order_item(st, its, counts, intent, sim)
    ELSE IF intent.intent = "confirm_order"
    THEN IF its # <<>>
         THEN IF has_low_confidence_items(its)
              THEN Handled(CLARIFYING, its, counts,
                           Msg("Just to make sure I got everything right - {summary}"))
              ELSE Handled(ORDER_COMPLETE, its, counts, Msg("{summary} Is that correct?"))
         ELSE Handled(st, its, counts,
                      Msg("You haven't ordered anything yet. What would you like?"))
    ELSE IF intent.intent = "remove_item"
    THEN handle_remove_item(st, its, counts, intent)
    ELSE Handled(st, its, counts, Msg("What would you like to order?"))

\* (mutant) _handle_clarifying waiting in Clarifying for an acceptance
handle_clarifying_waits(its, counts, intent, raw_text) ==
    IF intent.intent = "confirm_order" \/ Contains(Lower(raw_text), <<"y","e","s">>)
    THEN Handled(TAKING_ORDER, its, counts, Msg("Great! Anything else?"))
    ELSE Handled(CLARIFYING, its, counts, Msg("No problem. What should it be?"))

\* _handle_clarifying
handle_clarifying(its, counts, intent, raw_text) ==
    IF intent.intent = "confirm_order" \/ Contains(Lower(raw_text), <<"y","e","s">>)
    THEN Handled(TAKING_ORDER, its, counts, Msg("Great! Anything else?"))
    ELSE Handled(TAKING_ORDER, its, counts, Msg("No problem. What should it be?"))

\* (mutant) _handle_error_recovery_state without the return to the last
\* known-good state
handle_error_recovery_stays(lss, its, counts, intent, sim) ==
    IF intent.intent = "order_item"
    THEN process_order_item(ERROR_RECOVERY, its, counts, intent, sim)
    ELSE Handled(ERROR_RECOVERY, its, counts, Msg("What can I get for you?"))

\* _handle_error_recovery_state
handle_error_recovery_state(lss, its, counts, intent, sim) ==
    IF intent.intent = "order_item"
    THEN process_order_item(lss, its, counts, intent, sim)
    ELSE Handled(lss, its, counts, Msg("What can I get for you?"))

\* _handle_order_complete
handle_order_complete(its, counts) ==
    Handled(PAYMENT, its, counts,
            Msg("Your total is ${total}. Please pull forward to the window."))

\* (mutant) _handle_payment handing the order over and clearing it
handle_payment_clears(its, counts) ==
    Handled(GOODBYE, <<>>, counts, Msg("Thank you! Your order will be ready at the window."))

\* _handle_payment
handle_payment(its, counts) ==
    Handled(GOODBYE, its, counts, Msg("Thank you! Your order will be ready at the window."))

\* _handle_state_intent
handle_state_intent(st, lss, its, counts, intent, raw_text, sim) ==
    IF st = GREETING THEN handle_greeting(its, counts, intent, sim)
    ELSE IF st = TAKING_ORDER THEN handle_taking_order(st, its, counts, intent, sim)
    ELSE IF st = CLARIFYING THEN handle_clarifying(its, counts, intent, raw_text)
    ELSE IF st = ERROR_RECOVERY
    THEN handle_error_recovery_state(lss, its, counts, intent, sim)
    ELSE IF st = ORDER_COMPLETE THEN handle_order_complete(its, counts)
    ELSE IF st = PAYMENT THEN handle_payment(its, counts)
    ELSE Handled(st, its, counts, Msg("Thank you for choosing Taco Bell!"))

(***************************************************************************)
(* EnhancedConversationManager.process_input, one action per branch, and   *)
(* reset.                                                                  *)
(***************************************************************************)
\* (mutant) the confidence check with a lower threshold
IsLowConfidenceBelow(confidence) == confidence < 30

\* process_input, line 147: `confidence < 0.5`
IsLowConfidence(confidence) == confidence < 50

\* (mutant) the repeated-failure check one error late
TooManyErrorsLate(errors) == errors > max_consecutive_errors

\* _handle_empty_input, line 223:
\* `self.consecutive_errors >= self.max_consecutive_errors`
TooManyErrors(errors) == errors >= max_consecutive_errors

\* process_input, lines 143-144 and _handle_empty_input
EmptyInput(text, confidence) ==
    /\ IsBlank(text)
    /\ LET errors == consecutive_errors + 1
           handled == handle_error(ASR_FAILURE, errors, DefaultMaxRetries, "")
           response == IF TooManyErrors(errors)
                       THEN Msg("I'm having trouble hearing you. Is everything okay?")
                       ELSE Msg(handled.message)
       IN  /\ consecutive_errors' = errors
           /\ error_counts' = track_error(error_counts, ASR_FAILURE)
           /\ last' = Outcome("process_input", text, confidence, "empty", 0, FALSE, 0, response,
                              EmptyRun + 1)
    /\ turns' = turns + 1
    /\ scenario' = OffScript
    /\ UNCHANGED << state, items, conversation_history, last_successful_state,
                    oplog, ledger >>

\* process_input, lines 147-148 and _handle_low_confidence_input; the single
\* detect_intent call returns `result` when `returns`, and raises otherwise
LowConfidenceInput(text, confidence, returns, result) ==
    /\ ~IsBlank(text)
    /\ IsLowConfidence(confidence)
    /\ IF returns /\ result.items # <<>>
       THEN /\ state' = CLARIFYING
            /\ \E template \in unclear_item_templates :
                  last' = Outcome("process_input", text, confidence,
                                  "low_confidence", 1, TRUE,
                                  Len(result.items), Msg(template), 0)
            /\ UNCHANGED error_counts
       ELSE /\ error_counts' = track_error(error_counts, ASR_LOW_CONFIDENCE)
            /\ last' = Outcome("process_input", text, confidence,
                               "low_confidence", 1, returns, 0,
                               Msg(handle_error(ASR_LOW_CONFIDENCE, 0, DefaultMaxRetries,
                                                "").message),
                               0)
            /\ UNCHANGED state
    /\ turns' = turns + 1
    /\ scenario' = OffScript
    /\ UNCHANGED << items, conversation_history, consecutive_errors,
                    last_successful_state, oplog, ledger >>

\* process_input, lines 151-152 and _handle_customer_confusion
ConfusedInput(text, confidence) ==
    /\ ~IsBlank(text)
    /\ ~IsLowConfidence(confidence)
    /\ detect_confusion_signals(text)
    /\ state' = ERROR_RECOVERY
    /\ last' = Outcome("process_input", text, confidence, "confusion", 0, FALSE, 0,
                       Msg(suggest_recovery_path(state)), 0)
    /\ turns' = turns + 1
    /\ scenario' = OffScript
    /\ UNCHANGED << items, conversation_history, consecutive_errors,
                    last_successful_state, error_counts, oplog, ledger >>

\* process_input, lines 154-162, when every attempt of _get_intent_with_retry
\* raises: the handler is told of the first two, then _handle_intent_failure
IntentFailure(text, confidence) ==
    /\ ~IsBlank(text)
    /\ ~IsLowConfidence(confidence)
    /\ ~detect_confusion_signals(text)
    /\ LET errors == consecutive_errors + 1
           told == TrackTimes(error_counts, API_TIMEOUT, IntentMaxRetries - 1)
       IN  /\ consecutive_errors' = errors
           /\ error_counts' = track_error(told, API_TIMEOUT)
           /\ last' = Outcome("process_input", text, confidence,
                              "intent_failure", IntentMaxRetries,
                              FALSE, 0,
                              Msg(handle_error(API_TIMEOUT, errors, DefaultMaxRetries,
                                               "").message),
                              0)
    /\ conversation_history' = Append(conversation_history, "Customer")
    /\ turns' = turns + 1
    /\ scenario' = OffScript
    /\ UNCHANGED << state, items, last_successful_state, oplog, ledger >>

\* (mutant) a successful turn that leaves the error counter as it was
ErrorsAfterSuccessKept(errors) == errors

\* process_input, lines 170-171: "Reset error counter on success"
ErrorsAfterSuccess(errors) == 0

\* process_input, lines 163-177: what a dispatched turn leaves behind, given
\* the handler's result `done`; the call's record keeps the classifier's
\* result and the embedding model's answer
Dispatched(text, confidence, fails, result, sim, done) ==
    /\ \A i \in 1..Len(done.items) : done.items[i].quantity <= MaxQty
    /\ state' = done.state
    /\ items' = done.items
    /\ error_counts' = done.error_counts
    /\ last_successful_state' = done.state
    /\ last' = Outcome("process_input", text, confidence, "dispatch",
                       fails + 1, TRUE,
                       Len(result.items), done.response, 0)
                @@ [result |-> result, sim |-> sim]
    /\ conversation_history' = conversation_history \o <<"Customer", "Agent">>
    /\ consecutive_errors' = ErrorsAfterSuccess(consecutive_errors)
    /\ turns' = turns + 1
    /\ scenario' = Follows(scenario, text, confidence, result)
    /\ UNCHANGED << oplog, ledger >>

\* process_input, lines 154-177: `fails` attempts raise, the next returns
\* `result`, and the turn is dispatched to the handler of the current state
DispatchTurn(text, confidence, fails, result, sim) ==
    /\ ~IsBlank(text)
    /\ ~IsLowConfidence(confidence)
    /\ ~detect_confusion_signals(text)
    /\ fails < IntentMaxRetries
    /\ Dispatched(text, confidence, fails, result, sim,
                  handle_state_intent(state, last_successful_state, items,
                                      TrackTimes(error_counts, API_TIMEOUT, fails),
                                      result, text, sim))

\* (mutant) the roll-back made on every unexpected error
RecoveredStateAlways(st, lss, errors) == lss

\* _handle_unexpected_error, lines 306-310: the state the call leaves, given
\* the counter after its increment
RecoveredState(st, lss, errors) == IF TooManyErrors(errors) THEN lss ELSE st

\* _handle_unexpected_error, given the state, the counter and the last
\* known-good state when the exception is caught
handle_unexpected_error(st, errors, lss) ==
    [ state |-> RecoveredState(st, lss, errors + 1),
      consecutive_errors |-> errors + 1,
      response |-> IF TooManyErrors(errors + 1)
                   THEN Msg("Let's start fresh. What can I get for you?")
                   ELSE Msg(handle_error(UNKNOWN_ERROR, errors + 1, DefaultMaxRetries,
                                         "").message) ]

\* the manager's fields at the moment an exception is caught
Fields(st, its, counts, errors, lss, history) ==
    [ state |-> st, items |-> its, error_counts |-> counts,
      consecutive_errors |-> errors, last_successful_state |-> lss,
      conversation_history |-> history ]

\* process_input, lines 179-180: a statement of the try block raised an
\* exception that no inner handler caught; `at` holds the fields at that
\* moment and `recovered` what _handle_unexpected_error makes of them
Unexpected(text, confidence, calls, got_result, reported, at, recovered) ==
    /\ state' = recovered.state
    /\ items' = at.items
    /\ error_counts' = track_error(at.error_counts, UNKNOWN_ERROR)
    /\ consecutive_errors' = recovered.consecutive_errors
    /\ last_successful_state' = at.last_successful_state
    /\ conversation_history' = at.conversation_history
    /\ last' = Outcome("process_input", text, confidence, "unexpected", calls,
                       got_result, reported, recovered.response, 0)
                @@ [at_raise |-> at]
    /\ turns' = turns + 1
    /\ scenario' = OffScript
    /\ UNCHANGED << oplog, ledger >>

\* process_input when the first statement of the try block raises (line 156):
\* nothing has been done yet
UnexpectedErrorEarly(text, confidence) ==
    /\ ~IsBlank(text)
    /\ ~IsLowConfidence(confidence)
    /\ ~detect_confusion_signals(text)
    /\ Unexpected(text, confidence, 0, FALSE, 0,
                  Fields(state, items, error_counts, consecutive_errors,
                         last_successful_state, conversation_history),
                  handle_unexpected_error(state, consecutive_errors,
                                          last_successful_state))

\* process_input when the last statement of the try block raises (line 175,
\* _log_state): the handler has run, the counter is reset and the state the
\* handler left is the last known-good state
UnexpectedAfter(text, confidence, fails, result, done) ==
    /\ \A i \in 1..Len(done.items) : done.items[i].quantity <= MaxQty
    /\ Unexpected(text, confidence, fails + 1, TRUE, Len(result.items),
                  Fields(done.state, done.items, done.error_counts,
                         ErrorsAfterSuccess(consecutive_errors), done.state,
                         conversation_history \o <<"Customer", "Agent">>),
                  handle_unexpected_error(done.state,
                                          ErrorsAfterSuccess(consecutive_errors),
                                          done.state))

UnexpectedErrorLate(text, confidence, fails, result, sim) ==
    /\ ~IsBlank(text)
    /\ ~IsLowConfidence(confidence)
    /\ ~detect_confusion_signals(text)
    /\ fails < IntentMaxRetries
    /\ UnexpectedAfter(text, confidence, fails, result,
                       handle_state_intent(state, last_successful_state, items,
                                           TrackTimes(error_counts, API_TIMEOUT, fails),
                                           result, text, sim))

\* EnhancedConversationManager.reset
Reset ==
    /\ state' = GREETING
    /\ items' = <<>>
    /\ conversation_history' = <<>>
    /\ consecutive_errors' = 0
    /\ last' = NoTurn("reset")
    /\ scenario' = OffScript
    /\ UNCHANGED << last_successful_state, error_counts, turns, oplog, ledger >>

\* any call of the session, every input of the model, in short sessions
Next ==
    \/ \E text \in BlankTexts, confidence \in Confidences :
            turns < MaxTurns /\ EmptyInput(text, confidence)
    \/ \E t \in LowConfidenceTurns :
            turns < MaxTurns /\ LowConfidenceInput(t.text, t.confidence, t.fails = 0, t.result)
    \/ \E text \in ConfusedTexts, confidence \in Confidences :
            turns < MaxTurns /\ ConfusedInput(text, confidence)
    \/ \E text \in PlainTexts, confidence \in Confidences :
            turns < MaxTurns /\ IntentFailure(text, confidence)
    \/ \E t \in DispatchTurns :
            turns < MaxTurns /\ DispatchTurn(t.text, t.confidence, t.fails, t.result, t.sim)
    \/ \E text \in PlainTexts, confidence \in Confidences :
            turns < MaxTurns /\ UnexpectedErrorEarly(text, confidence)
    \/ \E t \in RaisingTurns :
            turns < MaxTurns
            /\ UnexpectedErrorLate(t.text, t.confidence, t.fails, t.result, t.sim)
    \/ Reset

Spec == Init /\ [][Next]_vars

(***************************************************************************)
(* SpecSession: whole conversations.  The same calls, up to                *)
(* MaxSessionTurns of them, with the inputs of an ordinary drive-thru      *)
(* exchange: a greeting, an order of two crunchy tacos, an order the       *)
(* embedding search answers, a confirmation, silence, a mumbled order and  *)
(* a confused customer.                                                    *)
(***************************************************************************)
SessionTurns ==
    { Turn(TextHi, 100, 0, Greeting, SimMid), Turn(TextOrder, 100, 0, OrderTwoTacos, SimMid),
      Turn(TextPizza, 100, 0, OrderPizza, SimMid), Turn(TextThatsAll, 100, 0, Confirm, SimMid),
      Turn(TextYes, 100, 0, Confirm, SimMid) }

NextSession ==
    \/ turns < MaxSessionTurns /\ EmptyInput(<<>>, 100)
    \/ turns < MaxSessionTurns /\ LowConfidenceInput(TextHi, 30, TRUE, OrderTwoTacos)
    \/ turns < MaxSessionTurns /\ ConfusedInput(TextConfused, 100)
    \/ turns < MaxSessionTurns /\ IntentFailure(TextHi, 100)
    \/ \E t \in SessionTurns :
            turns < MaxSessionTurns
            /\ DispatchTurn(t.text, t.confidence, t.fails, t.result, t.sim)
    \/ turns < MaxSessionTurns /\ UnexpectedErrorEarly(TextHi, 100)
    \/ \E t \in SessionTurns :
            turns < MaxSessionTurns
            /\ UnexpectedErrorLate(t.text, t.confidence, t.fails, t.result, t.sim)
    \/ Reset

SpecSession == Init /\ [][NextSession]_vars

(***************************************************************************)
(* SpecOrder: the Order aggregate driven directly through add_item and     *)
(* remove_item.  The lines are built from catalog items, as                *)
(* _process_order_item builds them (name and price of a MenuItem).         *)
(***************************************************************************)
CrunchyTaco == MenuData[1]
BajaBlast == MenuData[10]
CinnamonTwists == MenuData[14]

\* the items the direct calls add
OrderMenuItems == { CrunchyTaco, BajaBlast, CinnamonTwists }

\* the modification lists the direct calls use
ModLists == { <<>>, <<"no lettuce">> }

\* the names remove_item is called with: catalog names in several letter
\* cases, and a name no line has
RemoveNames ==
    { m.name : m \in OrderMenuItems } \cup
    { Lower(CrunchyTaco.name), <<"B","A","J","A"," ","B","L","A","S","T">>, Pizza }

\* order.add_item(OrderItem(name, quantity, price, modifications))
OrderAdd(m, qty, mods) ==
    /\ Len(oplog) < MaxOps
    /\ items' = add_item(items, OrderItem(m.name, qty, m.price, mods, 100))
    /\ oplog' = Append(oplog,
                       [op |-> "add", name |-> m.name, quantity |-> qty,
                        price |-> m.price, modifications |-> mods, ret |-> TRUE])
    /\ ledger' = ledger + qty * m.price
    /\ UNCHANGED managerVars

\* order.remove_item(name)
OrderRemove(name) ==
    /\ Len(oplog) < MaxOps
    /\ LET r == remove_item(items, name)
           k == RemoveIndex(items, name)
       IN  /\ items' = r.items
           /\ oplog' = Append(oplog,
                              [op |-> "remove", name |-> name, quantity |-> 0,
                               price |-> 0, modifications |-> <<>>, ret |-> r.ret])
           /\ ledger' = IF r.ret THEN ledger - get_total_price(items[k]) ELSE ledger
    /\ UNCHANGED managerVars

NextOrder ==
    \/ \E m \in OrderMenuItems, qty \in 1..2, mods \in ModLists : OrderAdd(m, qty, mods)
    \/ \E name \in RemoveNames : OrderRemove(name)

SpecOrder == Init /\ [][NextOrder]_vars

(***************************************************************************)
(* Claims about the Order aggregate, checked under SpecOrder.              *)
(***************************************************************************)
AllAdds(log) == \A i \in 1..Len(log) : log[i].op = "add"

SameKey(log) ==
    \A i, j \in 1..Len(log) :
        /\ log[i].name = log[j].name
        /\ log[i].modifications = log[j].modifications

RECURSIVE SumQty(_)
SumQty(log) ==
    IF log = <<>> THEN 0 ELSE log[1].quantity + SumQty(Tail(log))

Front(log) == SubSeq(log, 1, Len(log) - 1)

\* C1: add_item calls that all carry the same (name, modifications), made on
\* an empty order, leave exactly one line whose quantity is the sum of the
\* requested quantities; a following add with another name or another
\* modification list makes a second, separate line.
C1_MergeSameKey ==
    /\ (oplog # <<>> /\ AllAdds(oplog) /\ SameKey(oplog)) =>
            /\ Len(items) = 1
            /\ items[1].name = oplog[1].name
            /\ items[1].modifications = oplog[1].modifications
            /\ items[1].quantity = SumQty(oplog)
    /\ ( /\ Len(oplog) >= 2 /\ AllAdds(oplog) /\ SameKey(Front(oplog))
         /\ ~SameKey(oplog) ) =>
            /\ Len(items) = 2
            /\ items[1].quantity = SumQty(Front(oplog))
            /\ items[2].name = oplog[Len(oplog)].name
            /\ items[2].modifications = oplog[Len(oplog)].modifications
            /\ items[2].quantity = oplog[Len(oplog)].quantity

\* two merged adds, then an add of the same name with other modifications
C1_Witness ==
    /\ Len(oplog) = 3 /\ AllAdds(oplog) /\ SameKey(Front(oplog))
    /\ oplog[3].name = oplog[1].name
    /\ oplog[3].modifications # oplog[1].modifications
    /\ Len(items) = 2
    /\ items[1].quantity = oplog[1].quantity + oplog[2].quantity

\* the sum of quantity x unit price over the lines, by index set
RECURSIVE SumOver(_, _)
SumOver(its, S) ==
    IF S = {} THEN 0
    ELSE LET i == CHOOSE x \in S : TRUE
         IN  its[i].quantity * its[i].price + SumOver(its, S \ {i})

\* C2: after any sequence of adds and removes get_total() is the sum over the
\* current lines of quantity x unit price (and agrees with a total kept call
\* by call); an order emptied by removals is the empty list, with total 0.
C2_TotalIsSum ==
    /\ get_total(items) = SumOver(items, 1..Len(items))
    /\ get_total(items) = ledger
    /\ items \in Seq({ items[i] : i \in 1..Len(items) })
    /\ (Len(items) = 0) => (items = <<>> /\ get_total(items) = 0)

\* every line has been removed again
C2_Witness ==
    /\ Len(oplog) = 3
    /\ oplog[1].op = "add" /\ oplog[1].quantity = 2
    /\ oplog[2].op = "remove" /\ oplog[2].ret
    /\ items = <<>>

\* the step is a remove_item call
IsRemoveStep == Len(oplog') = Len(oplog) + 1 /\ oplog'[Len(oplog')].op = "remove"

\* C4: remove_item(name) removes exactly the first line whose name equals
\* name ignoring case and returns True; without such a line it returns False
\* and changes nothing; the other lines keep content and relative order.
C4_RemoveFirstMatch ==
    [][ IsRemoveStep =>
          LET name == oplog'[Len(oplog')].name
              ret == oplog'[Len(oplog')].ret
              hits == { i \in 1..Len(items) : Lower(items[i].name) = Lower(name) }
          IN  IF hits = {}
              THEN ret = FALSE /\ items' = items
              ELSE \E k \in hits :
                      /\ \A j \in hits : k <= j
                      /\ ret = TRUE
                      /\ Len(items') = Len(items) - 1
                      /\ \A j \in 1..(k - 1) : items'[j] = items[j]
                      /\ \A j \in k..Len(items') : items'[j] = items[j + 1]
      ]_vars

\* two lines match the name in another letter case; the first one went
C4_Witness ==
    /\ Len(oplog) = 3
    /\ oplog[1].op = "add" /\ oplog[2].op = "add" /\ oplog[1].name = oplog[2].name
    /\ oplog[1].modifications = <<>> /\ oplog[2].modifications # <<>>
    /\ oplog[3].op = "remove" /\ oplog[3].ret
    /\ oplog[3].name # oplog[1].name
    /\ Len(items) = 1 /\ items[1].modifications = oplog[2].modifications

\* the calls were add(A, 2), add(B, 1), remove(A) for two different items
IsRoundTrip ==
    /\ Len(oplog) = 3
    /\ oplog[1].op = "add" /\ oplog[1].quantity = 2
    /\ oplog[2].op = "add" /\ oplog[2].quantity = 1
    /\ oplog[2].name # oplog[1].name
    /\ oplog[3].op = "remove" /\ oplog[3].name = oplog[1].name

\* C5: adding A x2 and B x1 to an empty order and removing A leaves only the
\* line B x1, and the total is B's unit price.
C5_RoundTrip ==
    IsRoundTrip =>
        /\ oplog[3].ret
        /\ Len(items) = 1
        /\ items[1].name = oplog[2].name
        /\ items[1].quantity = 1
        /\ items[1].modifications = oplog[2].modifications
        /\ get_total(items) = oplog[2].price

C5_Witness == IsRoundTrip /\ Len(items) = 1 /\ get_total(items) = BajaBlast.price

(***************************************************************************)
(* The conversation: claims about process_input and reset.                 *)
(***************************************************************************)
\* the step is one process_input call
IsTurn == turns' = turns + 1

\* the text has no character besides white space
OnlyWhitespace(text) == \A n \in 1..Len(text) : text[n] \in Whitespace

\* C3: in every reachable state of a session, whatever quantities the intent
\* classifier reports, every line of the order has quantity >= 1.
C3_QuantityAtLeastOne ==
    \A i \in 1..Len(items) : items[i].quantity >= 1

\* the transitions the state machine declares, given the last known-good state
DeclaredTransitions(lss) ==
    { <<GREETING, TAKING_ORDER>>,
      <<TAKING_ORDER, CLARIFYING>>, <<TAKING_ORDER, ORDER_COMPLETE>>,
      <<TAKING_ORDER, TAKING_ORDER>>, <<TAKING_ORDER, ERROR_RECOVERY>>,
      <<CLARIFYING, TAKING_ORDER>>,
      <<ERROR_RECOVERY, lss>>, <<ERROR_RECOVERY, TAKING_ORDER>>,
      <<ORDER_COMPLETE, PAYMENT>>,
      <<PAYMENT, GOODBYE>> }

\* C6: every change of the conversation state made by one process_input call
\* is a declared transition, for any text, confidence and classifier outcome.
C6_DeclaredTransitionsOnly ==
    [][ (IsTurn /\ state' # state) =>
            <<state, state'>> \in DeclaredTransitions(last_successful_state) ]_vars

\* C7: Goodbye is terminal: a process_input call made in Goodbye changes
\* neither the state nor the order.
C7_GoodbyeTerminal ==
    [][ (IsTurn /\ state = GOODBYE) => (state' = GOODBYE /\ items' = items) ]_vars

\* C8: a non-empty input with confidence < 0.5 whose extraction yields at
\* least one item phrase ends the turn in Clarifying with a clarification
\* question, and the order is as it was.
C8_LowConfidenceClarifies ==
    [][ ( /\ IsTurn
          /\ ~OnlyWhitespace(last'.user_input)
          /\ last'.confidence < 50
          /\ last'.got_result /\ last'.reported >= 1 ) =>
            /\ state' = CLARIFYING
            /\ last'.response.text \in unclear_item_templates
            /\ items' = items ]_vars

\* a mumbled order taken in TakingOrder with a line in the order
C8_Witness ==
    /\ last.op = "process_input" /\ last.confidence < 50
    /\ last.user_input = TextHi /\ last.reported >= 1
    /\ state = CLARIFYING /\ last_successful_state = TAKING_ORDER
    /\ items # <<>>

\* C9: an empty or whitespace-only input leaves the state, the order and
\* last_successful_state alone, calls the classifier zero times and adds
\* exactly 1 to the consecutive-error counter.
C9_EmptyShortCircuits ==
    [][ (IsTurn /\ OnlyWhitespace(last'.user_input)) =>
            /\ last'.path = "empty"
            /\ state' = state
            /\ items' = items
            /\ last_successful_state' = last_successful_state
            /\ last'.calls = 0
            /\ consecutive_errors' = consecutive_errors + 1 ]_vars

\* a whitespace-only input after an order was taken
C9_Witness ==
    /\ last.op = "process_input" /\ last.path = "empty"
    /\ last.user_input = <<" ", " ">>
    /\ state = TAKING_ORDER /\ items # <<>>
    /\ consecutive_errors = 1

MsgDidNotCatch == "I didn't catch that. Could you repeat?"
MsgTroubleHearing == "I'm having trouble hearing you. Is everything okay?"

\* the message of the n-th empty input of a run, as C10 states it
RunMessage(n) == IF n < 3 THEN MsgDidNotCatch ELSE MsgTroubleHearing

\* the turn is a dispatched order that names an item, right after the 4th
\* empty input of a run
IsOrderAfterFourthEmpty ==
    /\ IsTurn
    /\ last.path = "empty" /\ last.empties = 4
    /\ last'.path = "dispatch" /\ last'.reported >= 1

\* C10 as stated: the n-th empty input of a run of consecutive empty inputs
\* returns the ordinary message for n < 3 and the repeated-failure warning
\* for n >= 3; an order dispatched right after the 4th empty input brings
\* the consecutive-error counter back to 0.
C10_NthEmptyOfRun ==
    [][ /\ (IsTurn /\ last'.path = "empty") =>
                last'.response.text = RunMessage(last'.empties)
        /\ IsOrderAfterFourthEmpty => consecutive_errors' = 0 ]_vars

\* C10 amended: the warning replaces the ordinary message exactly when the
\* consecutive-error counter, which classifier failures raise as well and
\* which only a dispatched turn or a reset clears, has reached 3; so the
\* n-th empty input of a run that begins with the counter at 0 returns the
\* ordinary message for n < 3 and the warning for n >= 3; an order
\* dispatched right after the 4th empty input brings the counter back to 0.
C10_EmptyRunFromZero ==
    [][ /\ (IsTurn /\ last'.path = "empty") =>
                /\ last'.response.text = RunMessage(consecutive_errors')
                /\ (consecutive_errors' = last'.empties) =>
                        last'.response.text = RunMessage(last'.empties)
        /\ IsOrderAfterFourthEmpty => consecutive_errors' = 0 ]_vars

\* four empty inputs from the start of the session, then an order
C10_Witness ==
    /\ turns = 5 /\ error_counts[ASR_FAILURE] = 4
    /\ last.path = "dispatch" /\ last.reported >= 1
    /\ Len(conversation_history) = 2
    /\ items # <<>>
    /\ consecutive_errors = 0

\* C11: every turn that completes successfully (the classifier returned a
\* result and the state handler was dispatched) ends with the
\* consecutive-error counter at 0 and last_successful_state equal to the
\* state the turn ended in, however many failed turns came before it.
C11_SuccessResetsErrors ==
    [][ (IsTurn /\ last'.path = "dispatch") =>
            /\ last'.got_result
            /\ consecutive_errors' = 0
            /\ last_successful_state' = state' ]_vars

\* three empty inputs and a failed classification, then a dispatched turn
C11_Witness ==
    /\ turns = 5 /\ last.path = "dispatch"
    /\ error_counts[ASR_FAILURE] = 3 /\ error_counts[API_TIMEOUT] = 3
    /\ consecutive_errors = 0
    /\ state = TAKING_ORDER /\ last_successful_state = TAKING_ORDER

\* the messages handle_error returns for a classifier failure
ClassifierFailureMessages ==
    { "Give me just a second...",
      "I'm having trouble processing that. Let's try something else." }

\* C12: within one turn the classifier is called at most 3 times, one call
\* after another, stopping at the first call that returns; the error
\* handler is invoked between failed attempts; when all 3 attempts raise the
\* turn returns a classifier-failure message, the state and the order are
\* unchanged and the consecutive-error counter goes up by exactly 1.
C12_BoundedSerialRetries ==
    [][ IsTurn =>
          /\ last'.calls <= 3
          /\ (last'.path = "dispatch") =>
                /\ last'.got_result
                /\ error_counts'[API_TIMEOUT] =
                        error_counts[API_TIMEOUT] + (last'.calls - 1)
          /\ (last'.path = "intent_failure") =>
                /\ last'.calls = 3 /\ ~last'.got_result
                /\ error_counts'[API_TIMEOUT] = error_counts[API_TIMEOUT] + 3
                /\ last'.response.text \in ClassifierFailureMessages
                /\ state' = state
                /\ items' = items
                /\ consecutive_errors' = consecutive_errors + 1 ]_vars

\* a turn whose third attempt returned, and one whose attempts all raised
C12_Witness ==
    /\ turns = 2 /\ last.path = "intent_failure" /\ last.calls = 3
    /\ error_counts[API_TIMEOUT] = 5
    /\ state = TAKING_ORDER /\ consecutive_errors = 1

MsgStartFresh == "Let's start fresh. What can I get for you?"

\* C13: on an unexpected error the consecutive-error counter is incremented;
\* the state is forced back to last_successful_state, with the "start fresh"
\* message, exactly when the counter has then reached 3, and is left alone
\* otherwise; no other error path forces the state (the empty-input and the
\* classifier-failure paths never change it); the order's lines are as they
\* were when the error was caught.
C13_UnexpectedErrorRollsBack ==
    [][ IsTurn =>
          /\ (last'.path = "unexpected") =>
                /\ consecutive_errors' = last'.at_raise.consecutive_errors + 1
                /\ state' = IF consecutive_errors' >= 3
                             THEN last'.at_raise.last_successful_state
                             ELSE last'.at_raise.state
                /\ (last'.response.text = MsgStartFresh) <=> (consecutive_errors' >= 3)
                /\ items' = last'.at_raise.items
                /\ last_successful_state' = last'.at_raise.last_successful_state
          /\ (last'.path = "unexpected" /\ ~last'.got_result) =>
                /\ consecutive_errors' = consecutive_errors + 1
                /\ state' = IF consecutive_errors' >= 3 THEN last_successful_state
                             ELSE state
                /\ items' = items
          /\ (last'.path \in {"empty", "intent_failure"}) => state' = state ]_vars

\* the third error in a row is an unexpected one, met in ErrorRecovery with
\* a line in the order: the state is back at the last known-good one
C13_Witness ==
    /\ last.path = "unexpected" /\ consecutive_errors = 3
    /\ last.at_raise.state = ERROR_RECOVERY
    /\ state = TAKING_ORDER /\ last_successful_state = TAKING_ORDER
    /\ items # <<>>
    /\ last.response.text = MsgStartFresh

\* the inputs of one process_input call on which C14 asks for a branch:
\* every text and confidence, the classifier returning at once or never, a
\* result that names no item and one whose phrase only the embedding search
\* answers (with matches too weak to accept), and the embedding model
\* answering or raising
AnyTurns ==
    { Turn(t, c, f, r, e) : t \in Texts, c \in Confidences, f \in {0, IntentMaxRetries},
                            r \in { NoResult, OrderPizza },
                            e \in { SimLow, EncodeRaises } }

\* process_input(t.text, t.confidence) with the outcomes of t returns
Returns(t) ==
    ENABLED ( \/ EmptyInput(t.text, t.confidence)
              \/ LowConfidenceInput(t.text, t.confidence, t.fails = 0, t.result)
              \/ ConfusedInput(t.text, t.confidence)
              \/ (t.fails = IntentMaxRetries /\ IntentFailure(t.text, t.confidence))
              \/ DispatchTurn(t.text, t.confidence, t.fails, t.result, t.sim) )

\* C14: process_input never raises to its caller: for every text, confidence,
\* classifier outcome (a result or an exception) and retrieval outcome it
\* returns a user-facing message and a state of ConversationState, and the
\* state machine can take the next turn.
C14_AlwaysReturns ==
    /\ state \in ConversationState
    /\ last_successful_state \in ConversationState
    /\ (last.op = "process_input") => last.response.text # ""
    /\ (turns < MaxTurns) => \A t \in AnyTurns : Returns(t)

\* a turn in which every search raised: the handler's exception was
\* swallowed and the turn returned
C14_Witness ==
    /\ last.op = "process_input" /\ last.path = "dispatch"
    /\ last.response = HandlerFailedResponse
    /\ error_counts[MENU_ITEM_NOT_FOUND] = 1
    /\ state = TAKING_ORDER /\ items = <<>>

\* the single line of the scenario's order: two crunchy tacos at 1.49
TwoCrunchyTacos(its) ==
    /\ Len(its) = 1
    /\ its[1].name = CrunchyTaco.name
    /\ its[1].quantity = 2
    /\ its[1].price = 149

\* C15: from a fresh session the four turns greeting, order of two crunchy
\* tacos (one item phrase, quantity 2), "That's all" (confirm), "Yes"
\* (confirm), all at confidence 1.0, take the state through Greeting,
\* TakingOrder, TakingOrder, OrderComplete, Payment, and the final order has
\* exactly one line (Crunchy Taco, quantity 2, unit price 1.49), total 2.98.
C15_SimpleOrderFlow ==
    /\ (scenario = 0) => (state = GREETING /\ items = <<>>)
    /\ (scenario = 1) => (state = TAKING_ORDER /\ items = <<>>)
    /\ (scenario = 2) => (state = TAKING_ORDER /\ TwoCrunchyTacos(items))
    /\ (scenario = 3) => (state = ORDER_COMPLETE /\ TwoCrunchyTacos(items))
    /\ (scenario = 4) =>
            /\ state = PAYMENT
            /\ TwoCrunchyTacos(items)
            /\ get_total(items) = 298

\* the scenario was followed to its last turn
C15_Witness ==
    /\ scenario = Len(Scenario) /\ turns = 4
    /\ last.user_input = TextYes /\ last.path = "dispatch"
    /\ state = PAYMENT /\ get_total(items) = 298

MsgNotFound == "I couldn't find that on our menu. What else can I get you?"

\* the retrieval engine rejects the phrase: the top-1 search returns nothing,
\* or a best match that scores 0.5 or less
Rejected(phrase, sim) ==
    /\ ~menu_search(phrase, 1, sim).raised
    /\ \/ menu_search(phrase, 1, sim).results = <<>>
       \/ menu_search(phrase, 1, sim).results[1].score <= 50

\* the turn is an order-item turn (_process_order_item ran) that mentions
\* phrases, all of which the retrieval engine rejects
IsOrderOfRejected ==
    /\ IsTurn /\ last'.path = "dispatch"
    /\ state \in { GREETING, TAKING_ORDER, ERROR_RECOVERY }
    /\ last'.result.intent = "order_item"
    /\ last'.result.items # <<>>
    /\ \A n \in 1..Len(last'.result.items) : Rejected(last'.result.items[n], last'.sim)

\* the catalog items a top-3 search on the turn's first phrase returns
TopThree(turn) ==
    [n \in 1..Len(menu_search(turn.result.items[1], 3, turn.sim).results) |->
        menu_search(turn.result.items[1], 3, turn.sim).results[n].item]

\* C16 as stated: an order-item turn that mentions only rejected phrases
\* adds no line and changes none, and its response is the
\* menu-item-not-found message followed by a "Did you mean ..." list of the
\* names a top-3 search on the first mentioned phrase returns.
C16_NotFoundWithSuggestions ==
    [][ IsOrderOfRejected =>
            /\ items' = items
            /\ last'.response.text = MsgNotFound
            /\ last'.response.suggestions # <<>>
            /\ last'.response.suggestions = TopThree(last') ]_vars

\* C16 amended: such a turn adds no line and changes none, and its response
\* is the menu-item-not-found message, followed by the "Did you mean ..."
\* list of the names a top-3 search on the first mentioned phrase returns
\* when that search returns at least one item, and by nothing when it
\* returns none.
C16_NotFoundSuggestsWhenFound ==
    [][ IsOrderOfRejected =>
            /\ items' = items
            /\ last'.response.text = MsgNotFound
            /\ last'.response.rec = 0
            /\ last'.response.suggestions = TopThree(last')
            /\ error_counts'[MENU_ITEM_NOT_FOUND] = error_counts[MENU_ITEM_NOT_FOUND] + 1
      ]_vars

\* a pizza ordered after a line was added: the best match scores exactly
\* 0.5, nothing is added and two alternatives are offered
C16_Witness ==
    /\ last.path = "dispatch" /\ turns = 2
    /\ last.result.items = <<Pizza>> /\ last.sim = SimLow
    /\ last.response.text = MsgNotFound
    /\ Len(last.response.suggestions) = 2
    /\ Len(items) = 1

(***************************************************************************)
(* Direct calls on the retrieval engine and on the error handler: the      *)
(* call's arguments are drawn at the start, the action makes the call.     *)
(***************************************************************************)
MaxTopK == 3
MaxRetryCount == 4
MaxTracked == 6
MaxNames == 3
MaxFirstTurns == 5

\* str.upper(), for the letter cases a query is written in
Upper(s) ==
    [i \in 1..Len(s) |->
        IF \E c \in DOMAIN UpperToLower : UpperToLower[c] = s[i]
        THEN CHOOSE c \in DOMAIN UpperToLower : UpperToLower[c] = s[i]
        ELSE s[i]]

ItemNames == { MenuData[i].name : i \in 1..NItems }

ItemAliases ==
    UNION { { MenuData[i].aliases[a] : a \in 1..Len(MenuData[i].aliases) } :
            i \in 1..NItems }

QueryCheapest == <<"c","h","e","a","p","e","s","t"," ","i","t","e","m">>
QueryMostExpensive == <<"m","o","s","t"," ","e","x","p","e","n","s","i","v","e">>
QueryBoth ==
    <<"c","h","e","a","p","e","s","t"," ","o","r"," ",
      "m","o","s","t"," ","e","x","p","e","n","s","i","v","e">>
QueryLowestPrice == <<"L","o","w","e","s","t"," ","p","r","i","c","e","?">>
QueryPremium == <<"p","r","e","m","i","u","m">>

PriceQueries ==
    { QueryCheapest, QueryMostExpensive, QueryBoth, QueryLowestPrice, QueryPremium }

\* queries of the other tiers: the keyword tiers, tags, and nothing on the menu
OtherQueries ==
    { <<"v","e","g","g","i","e">>,
      <<"s","o","m","e","t","h","i","n","g"," ","h","o","t">>,
      <<"c","r","i","s","p","y">>,
      <<"b","e","e","f">>,
      <<"c","h","e","a","p"," ","c","l","a","s","s","i","c">>,
      Pizza }

Queries ==
    ItemNames \cup { Lower(n) : n \in ItemNames } \cup { Upper(n) : n \in ItemNames }
    \cup ItemAliases \cup { Upper(a) : a \in ItemAliases }
    \cup PriceQueries \cup OtherQueries

\* declaration orders of the catalog: the rotations of the shipped order,
\* their reversals, and the shipped order with two items exchanged
Rotation(k) == [i \in 1..NItems |-> ((i + k - 1) % NItems) + 1]
Exchange(a, b) == [i \in 1..NItems |-> IF i = a THEN b ELSE IF i = b THEN a ELSE i]
Declarations ==
    { Rotation(k) : k \in 0..(NItems - 1) }
    \cup { Reverse(Rotation(k)) : k \in 0..(NItems - 1) }
    \cup { Exchange(a, b) : a, b \in 1..NItems }

\* the texts an ErrorContext carries as user_facing_message ("": None)
ExplicitMessages == { "", "Please say that once more." }

SearchCall(query, top_k, sim) ==
    [ op |-> "search_menu", query |-> query, top_k |-> top_k, sim |-> sim,
      done |-> FALSE, raised |-> FALSE, results |-> <<>> ]

RankCall(query, decl) ==
    [ op |-> "price_search", query |-> query, decl |-> decl,
      done |-> FALSE, results |-> <<>> ]

ErrorCall(kind, retry_count, max_retries, message) ==
    [ op |-> "handle_error", kind |-> kind, retry_count |-> retry_count,
      max_retries |-> max_retries, message |-> message,
      done |-> FALSE, success |-> FALSE, user_message |-> "" ]

EscalateCall(kind) ==
    [ op |-> "should_escalate", kind |-> kind,
      done |-> FALSE, raised |-> FALSE, value |-> FALSE ]

\* error_counts after handle_error was called up to MaxTracked times for one
\* kind and up to twice for another
TrackedCounts ==
    { [k \in ErrorType |-> IF k = often THEN n ELSE IF k = other THEN m ELSE 0] :
        often \in ErrorType, n \in 0..MaxTracked, other \in ErrorType, m \in 0..2 }

RecommendCall(names) ==
    [ op |-> "get_recommendations", names |-> names,
      done |-> FALSE, results |-> <<>>, response |-> Msg("") ]

\* the line names of an order: up to MaxNames catalog names
NameLists == UNION { [1..n -> ItemNames] : n \in 0..MaxNames }

Calls ==
    { RecommendCall(names) : names \in NameLists } \cup
    { EscalateCall(kind) : kind \in ErrorType } \cup
    { SearchCall(q, k, sim) : q \in Queries, k \in 1..MaxTopK, sim \in Encodings }
    \cup { RankCall(q, decl) : q \in PriceQueries, decl \in Declarations }
    \cup { ErrorCall(kind, n, m, msg) :
             kind \in ErrorType, n \in 0..MaxRetryCount,
             m \in { 0, 1, DefaultMaxRetries }, msg \in ExplicitMessages }

InitCalls ==
    /\ state = GREETING
    /\ items = <<>>
    /\ conversation_history = <<>>
    /\ consecutive_errors = 0
    /\ last_successful_state = GREETING
    /\ last \in Calls
    /\ error_counts \in IF last.op = "should_escalate" THEN TrackedCounts
                        ELSE { [k \in ErrorType |-> 0] }
    /\ turns = 0
    /\ scenario = 0
    /\ oplog = <<>>
    /\ ledger = 0

\* menu_rag.search_menu(query, top_k)
SearchMenu ==
    /\ last.op = "search_menu" /\ ~last.done
    /\ last' = [last EXCEPT
                  !.done = TRUE,
                  !.raised = search_raises(last.query, last.top_k, last.sim),
                  !.results = IF search_raises(last.query, last.top_k, last.sim)
                              THEN <<>>
                              ELSE search_menu(last.query, last.top_k, last.sim)]
    /\ UNCHANGED << state, items, conversation_history, consecutive_errors,
                    last_successful_state, error_counts, turns, scenario, oplog, ledger >>

\* search_menu(query) on an engine built from the catalog declared in the
\* order last.decl, for a query the price tiers answer
SearchRanked ==
    /\ last.op = "price_search" /\ ~last.done
    /\ last' = [last EXCEPT
                  !.done = TRUE,
                  !.results = price_search(last.query, ItemsByPrice(last.decl)).results]
    /\ UNCHANGED << state, items, conversation_history, consecutive_errors,
                    last_successful_state, error_counts, turns, scenario, oplog, ledger >>

\* error_handler.handle_error(ErrorContext(...))
HandleError ==
    /\ last.op = "handle_error" /\ ~last.done
    /\ error_counts' = track_error(error_counts, last.kind)
    /\ last' = [last EXCEPT
                  !.done = TRUE,
                  !.success = handle_error(last.kind, last.retry_count,
                                           last.max_retries, last.message).success,
                  !.user_message = handle_error(last.kind, last.retry_count,
                                                last.max_retries, last.message).message]
    /\ UNCHANGED << state, items, conversation_history, consecutive_errors,
                    last_successful_state, turns, scenario, oplog, ledger >>

\* error_handler.should_escalate(kind)
ShouldEscalate ==
    /\ last.op = "should_escalate" /\ ~last.done
    /\ last' = [last EXCEPT
                  !.done = TRUE,
                  !.raised = should_escalate(error_counts, last.kind).raised,
                  !.value = should_escalate(error_counts, last.kind).value]
    /\ UNCHANGED << state, items, conversation_history, consecutive_errors,
                    last_successful_state, error_counts, turns, scenario, oplog, ledger >>

\* _process_order_item, lines 431-442, for an order with the line names
\* last.names: menu_rag.get_recommendations(names) and the response built
\* from its result
Recommend ==
    /\ last.op = "get_recommendations" /\ ~last.done
    /\ last' = [last EXCEPT
                  !.done = TRUE,
                  !.results = get_recommendations(last.names),
                  !.response = AddedResponse(get_recommendations(last.names))]
    /\ UNCHANGED << state, items, conversation_history, consecutive_errors,
                    last_successful_state, error_counts, turns, scenario, oplog, ledger >>

NextCalls ==
    \/ Recommend
    \/ ShouldEscalate
    \/ SearchMenu
    \/ SearchRanked
    \/ HandleError

SpecCalls == InitCalls /\ [][NextCalls]_vars

(***************************************************************************)
(* Claims about the retrieval engine and the error handler, checked under  *)
(* SpecCalls.                                                              *)
(***************************************************************************)
Searched == last.op = "search_menu" /\ last.done /\ ~last.raised

NonIncreasingScores(results) ==
    \A n \in 1..(Len(results) - 1) : results[n].score >= results[n + 1].score

\* C17: for every query and every top_k >= 1, search_menu(query, top_k)
\* returns at most top_k results ordered by non-increasing score, in every
\* tier, the price, vegetarian, spicy and crunchy tiers included.
C17_AtMostTopK ==
    Searched =>
        /\ Len(last.results) <= last.top_k
        /\ NonIncreasingScores(last.results)

Ranked == last.op = "price_search" /\ last.done

AsksCheapest(query) ==
    \/ Contains(Lower(query), <<"c","h","e","a","p","e","s","t">>)
    \/ Contains(Lower(query), <<"l","o","w","e","s","t"," ","p","r","i","c","e">>)

AsksMostExpensive(query) ==
    Contains(Lower(query), <<"m","o","s","t"," ","e","x","p","e","n","s","i","v","e">>)

PriceOf(result) == MenuData[result.item].price

Returned(results) == { results[n].item : n \in 1..Len(results) }

ThreeItems(results) == Len(results) = 3 /\ Cardinality(Returned(results)) = 3

NamedBy(query) == { i \in 1..NItems : Lower(MenuData[i].name) = Lower(query) }
AliasedBy(query) == { i \in 1..NItems : Lower(query) \in LowerAliases[i] }

\* C19: for every catalog item, a query equal to the item's name in any
\* letter case returns that item first with score 1.0 and reason "Exact
\* name match", and a query equal to one of its aliases returns that item
\* first with score 0.95, above the 0.85 of a tag match.
C19_NameThenAlias ==
    Searched =>
        /\ \A i \in NamedBy(last.query) :
              /\ last.results # <<>>
              /\ last.results[1] = SearchResult(i, 100, "Exact name match")
        /\ \A i \in AliasedBy(last.query) \ NamedBy(last.query) :
              /\ last.results # <<>>
              /\ last.results[1].item = i
              /\ last.results[1].score = 95
              /\ last.results[1].score > 85

ErrorHandled == last.op = "handle_error" /\ last.done

MsgEscalation == "I'm having trouble processing that. Let's try something else."

\* the kinds __init__ registers a recovery strategy for
Registered ==
    { ASR_FAILURE, ASR_LOW_CONFIDENCE, API_TIMEOUT, API_RATE_LIMIT, NETWORK_ERROR,
      MENU_ITEM_NOT_FOUND, AMBIGUOUS_ORDER, EMPTY_ORDER }

\* C20: handle_error returns (not recovered, escalation message) when
\* retry_count >= max_retries, whatever the kind, its strategy or the
\* explicit message; otherwise (recovered, message) when a strategy is
\* registered for the kind and (not recovered, message) when none is, the
\* message being the event's explicit text when present and the static text
\* of the kind otherwise.
C20_HandleErrorResult ==
    ErrorHandled =>
        /\ last.retry_count >= last.max_retries =>
              /\ ~last.success
              /\ last.user_message = MsgEscalation
        /\ last.retry_count < last.max_retries =>
              /\ last.success = (last.kind \in Registered)
              /\ last.user_message = IF last.message # "" THEN last.message
                                     ELSE user_messages(last.kind)
        /\ error_counts = [k \in ErrorType |-> IF k = last.kind THEN 1 ELSE 0]

\* a kind without a strategy, below the retry limit, with an explicit text
C20_Witness ==
    /\ ErrorHandled /\ last.kind = UNKNOWN_ERROR
    /\ last.retry_count = 2 /\ last.max_retries = 3
    /\ last.message # "" /\ last.user_message = last.message
    /\ ~last.success

Escalated == last.op = "should_escalate" /\ last.done

\* C21: should_escalate(kind) returns true exactly when errors of that kind
\* have been handled 5 or more times, and returns false for every kind with
\* fewer than 5 occurrences, kinds never seen included; the call changes
\* neither the conversation state nor the order.
C21_EscalateAtFive ==
    Escalated =>
        /\ ~last.raised
        /\ last.value = (error_counts[last.kind] >= 5)
        /\ state = GREETING /\ items = <<>>

\* C22: immediately after reset() the state is Greeting, the order and the
\* history are empty, the consecutive-error counter is 0,
\* last_successful_state is Greeting and the per-kind error counters are
\* empty, as in a freshly constructed manager.
C22_ResetIsFresh ==
    last.op = "reset" =>
        /\ state = GREETING
        /\ items = <<>>
        /\ conversation_history = <<>>
        /\ consecutive_errors = 0
        /\ last_successful_state = GREETING
        /\ error_counts = [k \in ErrorType |-> 0]

\* the turn is given a text that is not empty at a confidence of 0.5 or more
IsHeardTurn == IsTurn /\ ~IsBlank(last'.user_input) /\ last'.confidence >= 50

\* the turn took the confusion path: ErrorRecovery, the recovery suggestion
\* of the state it started in, no classifier call, the order as it was
TookConfusionPath ==
    /\ last'.path = "confusion"
    /\ state' = ERROR_RECOVERY
    /\ last'.response = Msg(suggest_recovery_path(state))
    /\ last'.calls = 0
    /\ items' = items

\* the turn went on to the intent classifier
WentToClassifier ==
    /\ last'.path \in { "dispatch", "intent_failure", "unexpected" }
    /\ last'.path # "unexpected" => last'.calls >= 1

SaysOneOf(text, lexicon) == \E entry \in lexicon : Contains(Lower(text), entry)

LexiconClaimed ==
    { <<"w","h","a","t">>, <<"h","u","h">>, <<"w","a","i","t">>,
      <<"c","o","n","f","u","s","e","d">>,
      <<"d","o","n","'","t"," ","u","n","d","e","r","s","t","a","n","d">>,
      <<"n","o","t"," ","s","u","r","e">>,
      <<"d","o","n","'","t"," ","k","n","o","w">> }

LexiconShipped ==
    { <<"w","h","a","t">>, <<"h","u","h">>, <<"w","a","i","t">>,
      <<"u","h">>, <<"u","m">>,
      <<"c","o","n","f","u","s","e","d">>,
      <<"d","o","n","'","t"," ","u","n","d","e","r","s","t","a","n","d">>,
      <<"n","o","t"," ","s","u","r","e">>,
      <<"i"," ","d","o","n","'","t"," ","k","n","o","w">> }

\* C23 as stated: a non-empty input with confidence >= 0.5 takes the
\* confusion path if and only if its lower-cased text contains one of
\* "what", "huh", "wait", "confused", "don't understand", "not sure",
\* "don't know"; every other such input goes to the intent classifier.
C23_ConfusionLexicon ==
    [][ IsHeardTurn =>
            IF SaysOneOf(last'.user_input, LexiconClaimed)
            THEN TookConfusionPath ELSE WentToClassifier ]_vars

\* C23 amended: a non-empty input with confidence >= 0.5 takes the confusion
\* path if and only if its lower-cased text contains one of "what", "huh",
\* "wait", "uh", "um", "confused", "don't understand", "not sure",
\* "i don't know"; every other such input goes to the intent classifier.
C23_ConfusionLexiconShipped ==
    [][ IsHeardTurn =>
            IF SaysOneOf(last'.user_input, LexiconShipped)
            THEN TookConfusionPath ELSE WentToClassifier ]_vars

\* "A number 1" holds the filler "um" and is taken for confusion, in
\* TakingOrder
C23_Witness ==
    /\ last.path = "confusion" /\ last.user_input = TextNumberOne
    /\ last.response.text = "No problem! What would you like to order?"
    /\ state = ERROR_RECOVERY

MsgLowConfidence == "Sorry, I didn't quite hear that. What did you say?"

\* the turn is given a text that is not empty at a confidence below 0.5, and
\* its one classifier call raises or returns a result without item phrases
IsUnheardTurn ==
    /\ IsTurn /\ ~IsBlank(last'.user_input) /\ last'.confidence < 50
    /\ last'.reported = 0

\* C24: a non-empty input with confidence < 0.5 whose best-effort extraction
\* yields no item phrase, or whose single classifier call raises, returns
\* the error handler's low-confidence message with the state, the order, the
\* consecutive-error counter and last_successful_state unchanged; the
\* classifier is called exactly once and its exception is not reported to
\* the error handler as a classifier failure.
C24_LowConfidenceNoItem ==
    [][ IsUnheardTurn =>
            /\ last'.path = "low_confidence"
            /\ last'.response = Msg(MsgLowConfidence)
            /\ state' = state
            /\ items' = items
            /\ consecutive_errors' = consecutive_errors
            /\ last_successful_state' = last_successful_state
            /\ conversation_history' = conversation_history
            /\ last'.calls = 1
            /\ error_counts' = [error_counts EXCEPT
                                  ![ASR_LOW_CONFIDENCE] = error_counts[ASR_LOW_CONFIDENCE] + 1]
      ]_vars

\* the classifier raises on a mumbled second turn, in TakingOrder
C24_Witness ==
    /\ last.path = "low_confidence" /\ ~last.got_result /\ last.calls = 1
    /\ turns = 2 /\ state = TAKING_ORDER
    /\ last.response.text = MsgLowConfidence
    /\ error_counts[ASR_LOW_CONFIDENCE] = 1 /\ error_counts[API_TIMEOUT] = 0

\* a state handler raised while the turn was dispatched: _handle_state_intent
\* caught the exception and answered for the handler
HandlerRaised ==
    IsTurn /\ last'.path = "dispatch" /\ last'.response = HandlerFailedResponse

\* C25: when a state handler raises while a turn is dispatched the turn
\* counts as failed: the consecutive-error counter goes up by 1 and is not
\* reset to 0, last_successful_state is not updated, and a generic recovery
\* message is returned.
C25_HandlerFailureCounts ==
    [][ HandlerRaised =>
            /\ consecutive_errors' = consecutive_errors + 1
            /\ last_successful_state' = last_successful_state
            /\ last'.response.text # "" ]_vars

\* a confirm-order intent is dispatched in TakingOrder
IsConfirmInTakingOrder ==
    /\ IsTurn /\ last'.path = "dispatch"
    /\ state = TAKING_ORDER
    /\ last'.result.intent = "confirm_order"

SomeLineInDoubt(its) == \E i \in 1..Len(its) : its[i].confidence < 70

\* C26: in TakingOrder a confirm-order intent leaves the state at
\* TakingOrder when the order is empty, moves to Clarifying when the order
\* is non-empty and some line has confidence < 0.7, and moves to
\* OrderComplete otherwise; so TakingOrder -> OrderComplete is taken only
\* with at least one line and only when every line has confidence >= 0.7.
C26_ConfirmInTakingOrder ==
    [][ /\ IsConfirmInTakingOrder =>
              /\ items' = items
              /\ state' = IF items = <<>> THEN TAKING_ORDER
                          ELSE IF SomeLineInDoubt(items) THEN CLARIFYING
                          ELSE ORDER_COMPLETE
        /\ (state = TAKING_ORDER /\ state' = ORDER_COMPLETE) =>
              /\ items # <<>>
              /\ \A i \in 1..Len(items) : items[i].confidence >= 70
      ]_vars

\* an order whose one line was matched at 0.62 is confirmed: Clarifying
C26_Witness ==
    /\ last.path = "dispatch" /\ last.result.intent = "confirm_order"
    /\ turns = 2 /\ state = CLARIFYING
    /\ Len(items) = 1 /\ items[1].confidence = 62

\* the successor the state machine fixes for a state, whatever is said
FixedSuccessor(st) ==
    CASE st = ORDER_COMPLETE -> PAYMENT
      [] st = PAYMENT -> GOODBYE
      [] st = CLARIFYING -> TAKING_ORDER

\* C27 as stated: the successor state of a turn in Clarifying, OrderComplete
\* or Payment does not depend on what the customer said: any further turn in
\* OrderComplete ends in Payment, any in Payment ends in Goodbye, and any
\* response in Clarifying ends in TakingOrder.
C27_FixedSuccessors ==
    [][ (IsTurn /\ state \in { CLARIFYING, ORDER_COMPLETE, PAYMENT }) =>
            state' = FixedSuccessor(state) ]_vars

\* C27 amended: the successor state of a dispatched turn (a non-empty input
\* at confidence >= 0.5 without confusion signal, for which the classifier
\* returned a result) in Clarifying, OrderComplete or Payment does not
\* depend on the text or the intent: Payment after OrderComplete, Goodbye
\* after Payment, TakingOrder after Clarifying.
C27_FixedSuccessorsOnDispatch ==
    [][ (IsTurn /\ last'.path = "dispatch"
         /\ state \in { CLARIFYING, ORDER_COMPLETE, PAYMENT }) =>
            /\ state' = FixedSuccessor(state)
            /\ items' = items ]_vars

\* a correction in Clarifying returns to TakingOrder
C27_Witness ==
    /\ last.path = "dispatch"
    /\ last.response.text = "No problem. What should it be?"
    /\ state = TAKING_ORDER

\* a turn of this session completed successfully: the history holds an
\* agent's response (reset() empties the history)
SomeTurnCompleted == InSeq("Agent", conversation_history)

\* C28: a dispatched turn in ErrorRecovery ends in the last state in which a
\* turn of this session completed successfully, and in TakingOrder when none
\* has completed yet; it never ends in Greeting when the session entered
\* ErrorRecovery on its first turn.
C28_RecoveryTarget ==
    [][ (IsTurn /\ last'.path = "dispatch" /\ state = ERROR_RECOVERY) =>
            /\ state' = IF SomeTurnCompleted THEN last_successful_state
                        ELSE TAKING_ORDER
            /\ ~SomeTurnCompleted => state' # GREETING ]_vars

\* C29 as stated: the first turn of a session, taken in Greeting, always
\* ends in TakingOrder, whatever the input text, its confidence and the
\* classifier outcome.
C29_FirstTurnToTakingOrder ==
    [][ (IsTurn /\ turns = 0 /\ state = GREETING) => state' = TAKING_ORDER ]_vars

\* C29 amended: a turn in Greeting that is dispatched (a non-empty input at
\* confidence >= 0.5 without confusion signal, for which the classifier
\* returned a result) always ends in TakingOrder, whatever the text and the
\* intent, even when the handler raises.
C29_DispatchedGreetingToTakingOrder ==
    [][ (IsTurn /\ state = GREETING /\ last'.path = "dispatch") =>
            /\ state' = TAKING_ORDER
            /\ last_successful_state' = TAKING_ORDER ]_vars

\* the first turn is dispatched with an intent that orders nothing
C29_Witness ==
    /\ turns = 1 /\ last.path = "dispatch"
    /\ last.result.intent = "unclear"
    /\ last.response.text = "{time based greeting}"
    /\ state = TAKING_ORDER

\* the turn runs order-item processing on the phrases the classifier reports
IsOrderItemTurn ==
    /\ IsTurn /\ last'.path = "dispatch"
    /\ state \in { GREETING, TAKING_ORDER, ERROR_RECOVERY }
    /\ last'.result.intent = "order_item"
    /\ last'.result.items # <<>>

\* the top-1 search of a phrase returns a result that scores above 0.5
TopOneAbove(phrase, sim) ==
    /\ ~menu_search(phrase, 1, sim).raised
    /\ menu_search(phrase, 1, sim).results # <<>>
    /\ menu_search(phrase, 1, sim).results[1].score > 50

\* the order after one accepted phrase: the quantity goes to the first line
\* of the same item (without modifications), or a new line is appended that
\* carries the catalog item's name and unit price, the quantity and, as its
\* confidence, the search score
WithLine(its, match, qty) ==
    IF \E k \in 1..Len(its) :
          its[k].name = MenuData[match.item].name /\ its[k].modifications = <<>>
    THEN LET k == CHOOSE k \in 1..Len(its) :
                    /\ its[k].name = MenuData[match.item].name
                    /\ its[k].modifications = <<>>
                    /\ \A j \in 1..(k - 1) :
                          ~(its[j].name = MenuData[match.item].name
                            /\ its[j].modifications = <<>>)
         IN  [its EXCEPT ![k].quantity = its[k].quantity + qty]
    ELSE Append(its, [ name |-> MenuData[match.item].name, quantity |-> qty,
                       price |-> MenuData[match.item].price, modifications |-> <<>>,
                       confidence |-> match.score ])

\* the quantity the classifier mapped to the phrase, 1 when it mapped none
MappedQuantity(result, phrase) ==
    IF phrase \in DOMAIN result.quantities THEN result.quantities[phrase] ELSE 1

\* the order after the phrases from the n-th on were processed in turn
RECURSIVE AfterPhrases(_, _, _, _)
AfterPhrases(its, result, sim, n) ==
    IF n > Len(result.items) THEN its
    ELSE AfterPhrases(IF TopOneAbove(result.items[n], sim)
                      THEN WithLine(its, menu_search(result.items[n], 1, sim).results[1],
                                    MappedQuantity(result, result.items[n]))
                      ELSE its,
                      result, sim, n + 1)

\* C30: in order-item processing a mentioned phrase adds to the order if and
\* only if its top-1 search result exists and scores strictly above 0.5; the
\* added or merged line carries the catalog item's name and unit price and
\* the quantity the classifier mapped to the phrase (1 when absent), a new
\* line's confidence is the search score, and a phrase whose top-1 score is
\* <= 0.5 never changes the order.
C30_AcceptAboveHalf ==
    [][ IsOrderItemTurn =>
            /\ items' = AfterPhrases(items, last'.result, last'.sim, 1)
            /\ (\A n \in 1..Len(last'.result.items) :
                    ~TopOneAbove(last'.result.items[n], last'.sim)) => items' = items
            /\ (\E n \in 1..Len(last'.result.items) :
                    /\ TopOneAbove(last'.result.items[n], last'.sim)
                    /\ MappedQuantity(last'.result, last'.result.items[n]) > 0)
                => items' # items
      ]_vars

\* "pizza" is matched to the Crunchy Taco at 0.62 and two are added
C30_Witness ==
    /\ last.path = "dispatch" /\ turns = 1
    /\ last.result.items = <<Pizza>> /\ last.sim = SimMid
    /\ items = << [ name |-> NameCrunchyTaco, quantity |-> 2, price |-> 149,
                    modifications |-> <<>>, confidence |-> 62 ] >>

\* the positions of the phrases of a result that the retrieval engine rejects
Unmatched(result, sim) ==
    { n \in 1..Len(result.items) : ~TopOneAbove(result.items[n], sim) }

FirstUnmatched(result, sim) ==
    result.items[CHOOSE n \in Unmatched(result, sim) :
                    \A m \in Unmatched(result, sim) : n <= m]

\* the catalog items a top-3 search on a phrase returns
TopThreeOf(phrase, sim) ==
    [n \in 1..Len(menu_search(phrase, 3, sim).results) |->
        menu_search(phrase, 3, sim).results[n].item]

\* C31: whenever at least one phrase mentioned in an order-item turn is
\* rejected, turns in which other phrases were accepted and added included,
\* the response carries the suggestion list of a top-3 search on the first
\* unmatched phrase.
C31_SuggestOnAnyRejection ==
    [][ (IsOrderItemTurn /\ last'.sim # EncodeRaises
         /\ Unmatched(last'.result, last'.sim) # {}) =>
            last'.response.suggestions =
                TopThreeOf(FirstUnmatched(last'.result, last'.sim), last'.sim) ]_vars

Recommended == last.op = "get_recommendations" /\ last.done

\* the catalog item of a name, and the categories of an order's lines
ItemNamed(name) == CHOOSE i \in 1..NItems : MenuData[i].name = name
Categories(names) == { MenuData[ItemNamed(names[n])].category : n \in 1..Len(names) }
HasMain(names) == Categories(names) \cap { "Tacos", "Burritos" } # {}

\* C32: get_recommendations contains the Baja Blast exactly when a main
\* (Tacos or Burritos) is present and no drink is, the Nacho Fries exactly
\* when a main is present and no side is, and the Crunchy Taco exactly when
\* no main is present; the response after an add offers the first element
\* of the list and falls back to "Anything else?" only when it is empty.
C32_DefaultSuggestions ==
    Recommended =>
        /\ (ItemNamed(NameBajaBlast) \in { last.results[n] : n \in 1..Len(last.results) })
              <=> (HasMain(last.names) /\ "Drinks" \notin Categories(last.names))
        /\ (ItemNamed(NameNachoFries) \in { last.results[n] : n \in 1..Len(last.results) })
              <=> (HasMain(last.names) /\ "Sides" \notin Categories(last.names))
        /\ (ItemNamed(NameCrunchyTaco) \in { last.results[n] : n \in 1..Len(last.results) })
              <=> ~HasMain(last.names)
        /\ last.response.rec = IF last.results = <<>> THEN 0 ELSE last.results[1]
        /\ (last.response.text = "I've added {items} to your order. Anything else?")
              <=> (last.results = <<>>)

\* a main, a drink and a side worth more than 5.00: nothing is suggested
C32_Witness ==
    /\ Recommended /\ Len(last.names) = 3
    /\ Categories(last.names) = { "Burritos", "Drinks", "Sides" }
    /\ last.results = <<>>
    /\ last.response.text = "I've added {items} to your order. Anything else?"

\* C39: no item returned by get_recommendations is already a line of the
\* order (the lines carry catalog names); in particular the Cravings Box is
\* never suggested to a customer whose order has one.
C39_NothingAlreadyOrdered ==
    Recommended =>
        \A n \in 1..Len(last.results) :
            \A m \in 1..Len(last.names) :
                MenuData[last.results[n]].name # last.names[m]

\* an order of a Cravings Box and a taco is offered a drink and a side
C39_Witness ==
    /\ Recommended
    /\ last.names = <<NameCravingsBox, NameCrunchyTaco>>
    /\ last.results = <<ItemNamed(NameBajaBlast), ItemNamed(NameNachoFries)>>

\* the order has a line from the Tacos or Burritos category
MainOrdered(its) == HasMain([n \in 1..Len(its) |-> its[n].name])

\* C33: after an add, the Cravings Box is the first recommendation exactly
\* when the order's subtotal (the sum of quantity times unit price over its
\* lines) is below 5.00 and a main is present; an order whose subtotal is
\* 5.00 or more is never offered the combo.
C33_ComboBelowFive ==
    [][ (IsOrderItemTurn /\ items' # items) =>
            ( (last'.response.rec = ItemNamed(NameCravingsBox))
                <=> (get_total(items') < SmallOrderThreshold /\ MainOrdered(items')) ) ]_vars

IsRemoveTurn ==
    /\ IsTurn /\ last'.path = "dispatch"
    /\ state = TAKING_ORDER
    /\ last'.result.intent = "remove_item"

\* the line's name equals one of the phrases, ignoring case
NamedExactly(line, phrases) ==
    \E n \in 1..Len(phrases) : Lower(line.name) = Lower(phrases[n])

\* C34: a remove-item turn in TakingOrder removes, per phrase, at most one
\* line, the first whose name equals the phrase ignoring case; a line whose
\* name equals no phrase is never removed; the state stays TakingOrder.
C34_RemoveByEqualName ==
    [][ IsRemoveTurn =>
            /\ state' = TAKING_ORDER
            /\ Len(items') >= Len(items) - Len(last'.result.items)
            /\ \A i \in 1..Len(items) :
                   ~NamedExactly(items[i], last'.result.items) => InSeq(items[i], items') ]_vars

\* C35: the order's lines are changed only by turns that reach dispatch
\* while the state is Greeting, TakingOrder or ErrorRecovery; empty-input,
\* low-confidence, confusion and classifier-failure turns, and dispatched
\* turns in Clarifying, OrderComplete, Payment or Goodbye, leave every line
\* unchanged whatever the classifier reports.
C35_LinesChangeOnlyWhenOrdering ==
    [][ (IsTurn /\ items' # items) =>
            /\ last'.path \in { "dispatch", "unexpected" }
            /\ last'.got_result
            /\ state \in { GREETING, TAKING_ORDER, ERROR_RECOVERY } ]_vars

\* an order of two tacos reported in Payment leaves the order as it was
C35_Witness ==
    /\ turns = 4 /\ state = GOODBYE
    /\ last.path = "dispatch" /\ last.result = OrderTwoTacos
    /\ Len(items) = 1 /\ items[1].quantity = 2

\* C36: in every state reachable by process_input and reset calls, if the
\* conversation state is OrderComplete or Payment then the order has at
\* least one line.
C36_NoPaymentForEmptyOrder ==
    state \in { ORDER_COMPLETE, PAYMENT } => items # <<>>

\* C37: after the customer accepts in Clarifying, a following confirm-order
\* turn in TakingOrder with the order unchanged reaches OrderComplete
\* instead of returning to Clarifying.
C37_ConfirmAfterAcceptance ==
    [][ ( /\ last.op = "process_input" /\ last.path = "dispatch"
          /\ last.response = Msg("Great! Anything else?")
          /\ state = TAKING_ORDER /\ items # <<>>
          /\ IsTurn /\ last'.path = "dispatch"
          /\ last'.result.intent = "confirm_order" ) =>
            state' = ORDER_COMPLETE ]_vars

\* C38: last_successful_state is never ErrorRecovery in any reachable state,
\* so a dispatched turn taken in ErrorRecovery always leaves ErrorRecovery
\* and the roll-back on repeated unexpected errors never lands in
\* ErrorRecovery.
C38_NeverRecoverIntoRecovery ==
    /\ [](last_successful_state # ERROR_RECOVERY)
    /\ [][ /\ (IsTurn /\ last'.path = "dispatch" /\ state = ERROR_RECOVERY) =>
                  state' # ERROR_RECOVERY
           /\ (IsTurn /\ last'.path = "unexpected" /\ TooManyErrors(consecutive_errors')) =>
                  state' # ERROR_RECOVERY ]_vars

\* the third unexpected error in a row, caught in ErrorRecovery, rolled the
\* session back to TakingOrder
C38_Witness ==
    /\ last.op = "process_input" /\ last.path = "unexpected"
    /\ last.at_raise.state = ERROR_RECOVERY
    /\ consecutive_errors = 3
    /\ state = TAKING_ORDER /\ last_successful_state = TAKING_ORDER

(***************************************************************************)
(* SpecFirst: the first-generation ConversationManager                     *)
(* (conversation_manager.py).  It has no error handling: a call either     *)
(* answers or lets the exception of the search leave process_input.  Its   *)
(* Order is the class the later manager took over (add_item, remove_item   *)
(* and get_total have the same bodies); its lines carry `confirmed` in     *)
(* place of a confidence.                                                  *)
(***************************************************************************)
\* OrderItem(name=..., quantity=..., price=...) of conversation_manager.py
FirstOrderItem(name, quantity, price) ==
    [ name |-> name, quantity |-> quantity, price |-> price,
      modifications |-> <<>>, confirmed |-> FALSE ]

\* IntentResult with entities['modifications']
FirstResult(intent, its, modifications) ==
    [intent |-> intent, items |-> its, quantities |-> NoQuantities,
     modifications |-> modifications]

\* what a handler leaves: the state, the lines, the response it returned, or
\* the exception that left it
Answer(st, its, response) ==
    [state |-> st, items |-> its, response |-> response, raised |-> FALSE]
Raises(st, its) ==
    [state |-> st, items |-> its, response |-> Msg(""), raised |-> TRUE]

\* ConversationManager._process_order_item, the body of the loop for one
\* mentioned phrase, given its quantity and the outcome of the top-1 search;
\* acc is [items, added, raised]
FirstProcessOne(acc, qty, search) ==
    IF search.raised THEN [acc EXCEPT !.raised = TRUE]
    ELSE IF search.results # <<>> /\ search.results[1].score > 50
    THEN [acc EXCEPT
            !.items = add_item(acc.items,
                               FirstOrderItem(MenuData[search.results[1].item].name, qty,
                                              MenuData[search.results[1].item].price)),
            !.added = Append(acc.added, MenuData[search.results[1].item].name)]
    ELSE acc

\* ConversationManager._process_order_item, the loop: a search that raises
\* ends the loop and the call
RECURSIVE FirstProcessMentioned(_, _, _, _)
FirstProcessMentioned(acc, mentioned, quantities, sim) ==
    IF mentioned = <<>> \/ acc.raised THEN acc
    ELSE FirstProcessMentioned(FirstProcessOne(acc, QuantityOf(quantities, mentioned[1]),
                                               menu_search(mentioned[1], 1, sim)),
                               Tail(mentioned), quantities, sim)

\* _process_order_item, `if items_added:` branch, given the recommendations
FirstAddedResponse(recommendations) ==
    IF recommendations # <<>>
    THEN Resp("I've added {items} to your order. Would you like to add a {rec} for ${price}?",
              recommendations[1], <<>>)
    ELSE Msg("I've added {items} to your order. Anything else?")

\* _process_order_item, `else:` branch with a phrase mentioned, given the
\* outcome of the top-3 search on the first phrase
FirstNotFound(st, its, similar) ==
    IF similar.raised THEN Raises(st, its)
    ELSE IF similar.results = <<>>
    THEN Answer(st, its, Msg("I couldn't find those items on our menu. "))
    ELSE Answer(st, its,
                Resp("I couldn't find those items on our menu. Did you mean {suggestions}?", 0,
                     [n \in 1..Len(similar.results) |-> similar.results[n].item]))

\* _process_order_item, the response built after the loop
FirstOrderResponse(st, done, mentioned_items, sim) ==
    IF done.raised THEN Raises(st, done.items)
    ELSE IF done.added # <<>>
    THEN Answer(st, done.items,
                FirstAddedResponse(get_recommendations(LineNames(done.items))))
    ELSE IF mentioned_items = <<>>
    THEN Answer(st, done.items, Msg("I couldn't find those items on our menu. "))
    ELSE FirstNotFound(st, done.items, menu_search(mentioned_items[1], 3, sim))

\* ConversationManager._process_order_item
first_process_order_item(st, its, intent, sim) ==
    FirstOrderResponse(st,
                       FirstProcessMentioned([items |-> its, added |-> <<>>, raised |-> FALSE],
                                             intent.items, intent.quantities, sim),
                       intent.items, sim)

\* ConversationManager._handle_modification, entered in the state st
first_handle_modification(st, its, intent) ==
    IF its = <<>>
    THEN Answer(st, its, Msg("You haven't ordered anything yet. What would you like?"))
    ELSE Answer(TAKING_ORDER,
                [its EXCEPT ![Len(its)].modifications = @ \o intent.modifications],
                Msg("Got it, {modifications} for your {item}. Anything else?"))

\* ConversationManager._handle_remove_item, the loop over Order.remove_item
RECURSIVE FirstRemoveMentioned(_, _)
FirstRemoveMentioned(acc, mentioned) ==
    IF mentioned = <<>> THEN acc
    ELSE FirstRemoveMentioned(
            [items |-> remove_item(acc.items, mentioned[1]).items,
             removed |-> IF remove_item(acc.items, mentioned[1]).ret
                         THEN Append(acc.removed, mentioned[1]) ELSE acc.removed],
            Tail(mentioned))

\* ConversationManager._handle_remove_item
first_handle_remove_item(st, its, intent) ==
    LET done == FirstRemoveMentioned([items |-> its, removed |-> <<>>], intent.items)
    IN  IF intent.items = <<>> THEN Answer(st, its, Msg("What would you like to remove?"))
        ELSE IF done.removed # <<>>
        THEN Answer(st, done.items, Msg("I've removed {removed} from your order. Anything else?"))
        ELSE Answer(st, done.items, Msg("I couldn't find that item in your order."))

\* _handle_price_inquiry with an item mentioned, given the top-1 search
FirstPriceOf(st, its, found) ==
    IF found.raised THEN Raises(st, its)
    ELSE IF found.results # <<>>
    THEN Answer(st, its, Resp("Our {item} is ${price}. Would you like to add it?",
                              found.results[1].item, <<>>))
    ELSE Answer(st, its, Msg("Which item would you like to know the price for?"))

\* ConversationManager._handle_price_inquiry
first_handle_price_inquiry(st, its, intent, sim) ==
    IF intent.items # <<>>
    THEN FirstPriceOf(st, its, menu_search(intent.items[1], 1, sim))
    ELSE Answer(st, its, Msg("Which item would you like to know the price for?"))

\* ConversationManager._handle_greeting
first_handle_greeting(its, intent, sim) ==
    IF intent.intent = "order_item"
    THEN first_process_order_item(TAKING_ORDER, its, intent, sim)
    ELSE Answer(TAKING_ORDER, its,
                Msg("Welcome to Taco Bell! What can I get started for you today?"))

\* ConversationManager._handle_taking_order
first_handle_taking_order(its, intent, sim) ==
    IF intent.intent = "order_item"
    THEN first_process_order_item(TAKING_ORDER, its, intent, sim)
    ELSE IF intent.intent = "ask_menu"
    THEN Answer(TAKING_ORDER, its, Msg("We have {menu}, and much more! What sounds good?"))
    ELSE IF intent.intent = "ask_price"
    THEN first_handle_price_inquiry(TAKING_ORDER, its, intent, sim)
    ELSE IF intent.intent = "confirm_order"
    THEN IF its # <<>>
         THEN Answer(ORDER_COMPLETE, its, Msg("{summary}\n\nIs that correct?"))
         ELSE Answer(TAKING_ORDER, its,
                     Msg("You haven't ordered anything yet. What would you like?"))
    ELSE IF intent.intent = "remove_item"
    THEN first_handle_remove_item(TAKING_ORDER, its, intent)
    ELSE IF intent.intent = "modify_item"
    THEN first_handle_modification(MODIFYING_ORDER, its, intent)
    ELSE Answer(TAKING_ORDER, its, Msg("What would you like to order?"))

\* ConversationManager._handle_confirming
first_handle_confirming(its, intent) ==
    IF intent.intent = "confirm_order"
    THEN Answer(ORDER_COMPLETE, its,
                Msg("Perfect! {summary}\n\nPlease pull forward to the window."))
    ELSE Answer(MODIFYING_ORDER, its, Msg("What would you like to change?"))

\* ConversationManager._handle_order_complete
first_handle_order_complete(its, intent) ==
    IF intent.intent \in { "modify_item", "remove_item" }
    THEN first_handle_modification(MODIFYING_ORDER, its, intent)
    ELSE Answer(PAYMENT, its,
                Msg("Your total is ${total}. Please pull forward to the window."))

\* ConversationManager._handle_state_intent
first_handle_state_intent(st, its, intent, sim) ==
    IF st = GREETING THEN first_handle_greeting(its, intent, sim)
    ELSE IF st = TAKING_ORDER THEN first_handle_taking_order(its, intent, sim)
    ELSE IF st = CONFIRMING_ITEM THEN first_handle_confirming(its, intent)
    ELSE IF st = MODIFYING_ORDER THEN first_handle_modification(st, its, intent)
    ELSE IF st = ORDER_COMPLETE THEN first_handle_order_complete(its, intent)
    ELSE IF st = PAYMENT
    THEN Answer(GOODBYE, its, Msg("Thank you! Your order will be ready at the window."))
    ELSE Answer(st, its, Msg("Thank you for choosing Taco Bell!"))

\* the results the classifier returns to the first-generation manager, with
\* what the embedding model does in the turn
FirstResults ==
    { FirstResult("order_item", l, <<>>) : l \in { <<PhraseCrunchyTaco>>, <<Pizza>> } }
    \cup { FirstResult("remove_item", l, <<>>) : l \in { <<>>, <<PhraseCrunchyTaco>> } }
    \cup { FirstResult("ask_price", l, <<>>) : l \in { <<>>, <<PhraseBajaBlast>> } }
    \cup { FirstResult("modify_item", <<>>, m) : m \in { <<>>, <<"no lettuce">> } }
    \cup { FirstResult(i, <<>>, <<>>) : i \in { "greeting", "confirm_order", "ask_menu",
                                                 "unclear" } }

FirstTurns ==
    { [result |-> r, sim |-> sim] : r \in FirstResults, sim \in Encodings }

\* ConversationManager.process_input, lines 141-148, given what the handler
\* left: the turn answers, or the exception of a search leaves the call
\* after the customer's words were recorded
FirstHandled(result, sim, done) ==
    /\ \A i \in 1..Len(done.items) : done.items[i].quantity <= MaxQty
    /\ state' = done.state
    /\ items' = done.items
    /\ conversation_history' =
          IF done.raised THEN Append(conversation_history, "Customer")
          ELSE conversation_history \o <<"Customer", "Agent">>
    /\ last' = Outcome("process_input", <<>>, 100,
                       IF done.raised THEN "raised" ELSE "answered",
                       1, TRUE, Len(result.items), done.response, 0)
                @@ [result |-> result, sim |-> sim]
    /\ turns' = turns + 1
    /\ UNCHANGED << consecutive_errors, last_successful_state, error_counts,
                    scenario, oplog, ledger >>

\* ConversationManager.process_input
FirstTurn(result, sim) ==
    /\ sim \in SimilaritiesFor(result)
    /\ FirstHandled(result, sim, first_handle_state_intent(state, items, result, sim))

\* ConversationManager.reset
FirstReset ==
    /\ state' = GREETING
    /\ items' = <<>>
    /\ conversation_history' = <<>>
    /\ last' = NoTurn("reset")
    /\ UNCHANGED << consecutive_errors, last_successful_state, error_counts, turns,
                    scenario, oplog, ledger >>

\* a process_input call of the first-generation manager
FirstProcessInput ==
    \E t \in FirstTurns : turns < MaxFirstTurns /\ FirstTurn(t.result, t.sim)

NextFirst ==
    \/ FirstProcessInput
    \/ FirstReset

SpecFirst == Init /\ [][NextFirst]_vars

\* the handler's outcome makes a turn that ends in another state
LeavesState(done) ==
    /\ \A i \in 1..Len(done.items) : done.items[i].quantity <= MaxQty
    /\ done.state # state

\* some process_input call is possible that ends in another state: the
\* enabling condition of FirstProcessInput /\ state' # state
CanLeave ==
    \E t \in FirstTurns :
        /\ t.sim \in SimilaritiesFor(t.result)
        /\ LeavesState(first_handle_state_intent(state, items, t.result, t.sim))

\* C40: from every state the first-generation manager reaches, some
\* continuation of intents reaches Goodbye, or at least leaves the current
\* state, without reset(); in particular a modify-item intent received while
\* the order is empty does not leave the conversation stuck in
\* ModifyingOrder.
C40_SomeTurnLeavesTheState ==
    (turns < MaxFirstTurns /\ state # GOODBYE) => CanLeave

====
